---------------------------- MODULE Spec2Model ----------------------------
(***************************************************************************)
(* A model of the rust-fast crate (TritonDataCenter/rust-fast): the Fast   *)
(* wire codec (src/src/protocol.rs), the server engine (src/src/server.rs) *)
(* and the client engine (src/src/client.rs).                              *)
(*                                                                         *)
(* Bytes are integers 0..255 and byte buffers are sequences of them.       *)
(* Strings are sequences of character codes.  JSON texts are real JSON     *)
(* texts over the subset of JSON the model's values need: objects, arrays, *)
(* strings without escapes, unsigned integers, and insignificant blanks.   *)
(***************************************************************************)
EXTENDS Integers, Sequences, FiniteSets, TLC

(***************************************************************************)
(* Bounds of the model.                                                    *)
(***************************************************************************)
\* largest number of copies of one message in a bundle
MaxCount == 2
\* largest number of DATA frames a handler returns for one request
MaxData == 1
\* largest number of requests a client sends on one connection
MaxReqs == 2
\* a socket read returns a multiple of this many bytes, or all that is pending
ReadQuantum == 4
\* a client's read returns a multiple of this many bytes, or all that its
\* buffer takes
RecvQuantum == 10
\* the number of DATA frames of a response
MaxFrames == 2
\* the number of requests a client sends with one FastMessageId
MaxSends == 2
\* a write to the stream accepts a multiple of this many bytes, or all it
\* is offered
WriteQuantum == 16

(***************************************************************************)
(* Generic helpers.                                                        *)
(***************************************************************************)
Min(a, b) == IF a < b THEN a ELSE b

Range(s) == { s[i] : i \in 1..Len(s) }

\* s without its first n elements (BytesMut::advance, slice [n..])
Drop(s, n) == SubSeq(s, n + 1, Len(s))

\* the first n elements of s
Take(s, n) == SubSeq(s, 1, n)

RECURSIVE Concat(_)
\* the concatenation of a sequence of sequences
Concat(ss) == IF ss = <<>> THEN <<>> ELSE Head(ss) \o Concat(Tail(ss))

(***************************************************************************)
(* Bit arithmetic on naturals, and CRC-16/ARC as the crc16 crate computes  *)
(* State::<ARC>::calculate: polynomial 0x8005 reflected (0xA001), initial  *)
(* value 0, no final xor.                                                  *)
(***************************************************************************)
RECURSIVE XorBits(_, _, _)
XorBits(a, b, n) ==
    IF n = 0 THEN 0
    ELSE ((a + b) % 2) + 2 * XorBits(a \div 2, b \div 2, n - 1)

\* xor of two 4-bit numbers, tabulated
XorNibble == [a \in 0..15 |-> [b \in 0..15 |-> XorBits(a, b, 4)]]

\* xor of two 16-bit numbers
Xor16(a, b) ==
      XorNibble[a % 16][b % 16]
    + 16 * XorNibble[(a \div 16) % 16][(b \div 16) % 16]
    + 256 * XorNibble[(a \div 256) % 16][(b \div 256) % 16]
    + 4096 * XorNibble[(a \div 4096) % 16][(b \div 4096) % 16]

RECURSIVE CrcShift(_, _)
\* n steps of the reflected shift register
CrcShift(c, n) ==
    IF n = 0 THEN c
    ELSE CrcShift(IF c % 2 = 1 THEN Xor16(c \div 2, 40961) ELSE c \div 2, n - 1)

\* the byte table of the reflected algorithm
CrcTable == [b \in 0..255 |-> CrcShift(b, 8)]

\* xor of two 8-bit numbers
Xor8(a, b) == XorNibble[a % 16][b % 16] + 16 * XorNibble[a \div 16][b \div 16]

\* one byte into the register c: (c >> 8) ^ table[(c ^ byte) & 0xff]
CrcByte(c, byte) ==
    LET t == CrcTable[Xor8(c % 256, byte)]
    IN  256 * (t \div 256) + Xor8(c \div 256, t % 256)

RECURSIVE CrcRange(_, _, _, _)
\* the register after bytes[lo..hi], from the register c; the range is
\* halved so that the evaluation stays shallow
CrcRange(c, bytes, lo, hi) ==
    IF lo > hi THEN c
    ELSE IF lo = hi THEN CrcByte(c, bytes[lo])
    ELSE LET mid == (lo + hi) \div 2
             left == CrcRange(c, bytes, lo, mid)
         IN  IF left >= 0 THEN CrcRange(left, bytes, mid + 1, hi) ELSE 0

\* State::<ARC>::calculate(bytes)
Crc16Arc(bytes) == CrcRange(0, bytes, 1, Len(bytes))

(***************************************************************************)
(* u32 values.  TLC's integers end at 2^31 - 1, so a u32 is the pair of    *)
(* its 16-bit halves <<hi, lo>>: the whole 32-bit range is representable.  *)
(***************************************************************************)
\* a natural number below 2^31 as a u32 (u32::from(u16), `len as u32`)
u32_from(n) == << n \div 65536, n % 65536 >>

\* BufMut::put_u32_be
put_u32_be(u) == << u[1] \div 256, u[1] % 256, u[2] \div 256, u[2] % 256 >>

\* read_u32 reading the four bytes least significant first
read_u32_le(b) == << b[4] * 256 + b[3], b[2] * 256 + b[1] >>

\* BigEndian::read_u32
read_u32(b) == << b[1] * 256 + b[2], b[3] * 256 + b[4] >>

\* `u as usize`.  A length of 2^31 - 16 or more stands as 2^31 - 16, the
\* largest the header size can be added to within TLC's integers; no buffer
\* of the model is that long, so every comparison with a buffer length
\* answers as for the exact value.
as_usize(u) == IF u[1] >= 32767 THEN 2147483632 ELSE u[1] * 65536 + u[2]

(***************************************************************************)
(* JSON values (serde_json::Value).  A value is a record [t, v]:           *)
(*   "num": v = <<n>>;  "str": v = the characters;  "arr": v = the items;  *)
(*   "float": v = <<n>>, the f64 of the integral value n below 10^16;      *)
(*   "obj": v = the members [k, val], sorted by key without duplicates     *)
(*          (serde_json's Map is a BTreeMap).                              *)
(***************************************************************************)
JNum(n) == [t |-> "num", v |-> <<n>>]
JFloat(n) == [t |-> "float", v |-> <<n>>]
JStr(s) == [t |-> "str", v |-> s]
JArr(items) == [t |-> "arr", v |-> items]
JObj(members) == [t |-> "obj", v |-> members]

RECURSIVE StrLess(_, _)
\* lexicographic order on strings (the order of BTreeMap<String, _>)
StrLess(a, b) ==
    IF b = <<>> THEN FALSE
    ELSE IF a = <<>> THEN TRUE
    ELSE IF a[1] # b[1] THEN a[1] < b[1]
    ELSE StrLess(Tail(a), Tail(b))

RECURSIVE MapInsert(_, _, _)
\* Map::insert(k, val): keeps the keys sorted, a later insert replaces
MapInsert(members, k, val) ==
    IF members = <<>> THEN << [k |-> k, val |-> val] >>
    ELSE IF Head(members).k = k THEN << [k |-> k, val |-> val] >> \o Tail(members)
    ELSE IF StrLess(k, Head(members).k) THEN << [k |-> k, val |-> val] >> \o members
    ELSE << Head(members) >> \o MapInsert(Tail(members), k, val)

RECURSIVE Digits(_)
\* the decimal text of a natural number
Digits(n) == IF n < 10 THEN << 48 + n >> ELSE Digits(n \div 10) \o << 48 + (n % 10) >>

RECURSIVE ValueToString(_)
RECURSIVE ItemsToString(_)
RECURSIVE MembersToString(_)
\* serde_json::to_string(&Value): the compact text
ValueToString(x) ==
    CASE x.t = "num" -> Digits(x.v[1])
      [] x.t = "float" -> Digits(x.v[1]) \o <<46, 48>>
      [] x.t = "str" -> <<34>> \o x.v \o <<34>>
      [] x.t = "arr" -> <<91>> \o ItemsToString(x.v) \o <<93>>
      [] x.t = "obj" -> <<123>> \o MembersToString(x.v) \o <<125>>

ItemsToString(items) ==
    IF items = <<>> THEN <<>>
    ELSE IF Len(items) = 1 THEN ValueToString(items[1])
    ELSE ValueToString(items[1]) \o <<44>> \o ItemsToString(Tail(items))

MembersToString(members) ==
    IF members = <<>> THEN <<>>
    ELSE LET one == <<34>> \o members[1].k \o <<34, 58>> \o ValueToString(members[1].val)
         IN  IF Len(members) = 1 THEN one
             ELSE one \o <<44>> \o MembersToString(Tail(members))

\* the field names of the payload: "m", "d", "uts", "name"
KEY_M == <<109>>
KEY_D == <<100>>
KEY_UTS == <<117, 116, 115>>
KEY_NAME == <<110, 97, 109, 101>>

\* serde_json::to_string(&FastMessageData): the derived Serialize writes the
\* fields in declaration order: {"m":{"uts":U,"name":"N"},"d":D}
to_string(data) ==
       <<123, 34>> \o KEY_M \o <<34, 58>>
    \o <<123, 34>> \o KEY_UTS \o <<34, 58>> \o Digits(data.m.uts)
    \o <<44, 34>> \o KEY_NAME \o <<34, 58, 34>> \o data.m.name \o <<34, 125>>
    \o <<44, 34>> \o KEY_D \o <<34, 58>> \o ValueToString(data.d)
    \o <<125>>

(***************************************************************************)
(* The JSON reader (serde_json::from_str).  A raw value is a value whose   *)
(* objects keep their members in text order, duplicates included; a        *)
(* result is [ok, val, pos], pos the index after the text read.            *)
(***************************************************************************)
ParseFail == [ok |-> FALSE, val |-> JNum(0), pos |-> 0]

\* the byte at index i, or -1 past the end
At(s, i) == IF i >= 1 /\ i <= Len(s) THEN s[i] ELSE -1

IsWs(c) == c \in {32, 9, 10, 13}

IsDigit(c) == c >= 48 /\ c <= 57

RECURSIVE SkipWs(_, _)
\* the index of the first non-blank byte at or after i
SkipWs(s, i) == IF IsWs(At(s, i)) THEN SkipWs(s, i + 1) ELSE i

\* the index of the quote closing a string whose characters start at i,
\* or 0: a control character or an escape (outside the subset) is refused
StringEnd(s, i) ==
    LET stops == { j \in i..Len(s) : s[j] = 34 \/ s[j] < 32 \/ s[j] = 92 }
        first == CHOOSE j \in stops : \A k \in stops : j <= k
    IN  IF stops = {} THEN 0
        ELSE IF s[first] = 34 THEN first
        ELSE 0

\* a string whose opening quote is at i
ParseString(s, i) ==
    LET j == StringEnd(s, i + 1)
    IN  IF At(s, i) # 34 \/ j = 0 THEN ParseFail
        ELSE [ok |-> TRUE, val |-> JStr(SubSeq(s, i + 1, j - 1)), pos |-> j + 1]

RECURSIVE NumberFrom(_, _, _)
\* the digits from i on, acc the number read so far
NumberFrom(s, i, acc) ==
    IF IsDigit(At(s, i)) THEN NumberFrom(s, i + 1, acc * 10 + (At(s, i) - 48))
    ELSE [ok |-> TRUE, val |-> JNum(acc), pos |-> i]

\* an unsigned integer at i: a leading 0 stands alone
ParseInteger(s, i) ==
    IF At(s, i) = 48 THEN [ok |-> TRUE, val |-> JNum(0), pos |-> i + 1]
    ELSE NumberFrom(s, i, 0)

\* the exponent after "e" or "E" of a number with the integer part n: an
\* optional "+" and at least one digit; the value is an f64 (a negative
\* exponent is outside the subset and refused)
ParseExponent(s, i, n) ==
    LET j == IF At(s, i) = 43 THEN i + 1 ELSE i
        e == NumberFrom(s, j, 0)
    IN  IF ~IsDigit(At(s, j)) THEN ParseFail
        ELSE [ok |-> TRUE, val |-> JFloat(n * (10 ^ e.val.v[1])), pos |-> e.pos]

\* a number at i: an unsigned integer, or one followed by an exponent
ParseNumber(s, i) ==
    LET r == ParseInteger(s, i)
    IN  IF At(s, r.pos) \in { 69, 101 }
        THEN ParseExponent(s, r.pos + 1, r.val.v[1])
        ELSE r

RECURSIVE ParseValueAt(_, _)
RECURSIVE ParseItems(_, _, _)
RECURSIVE ParseMembers(_, _, _)
\* one JSON value starting at or after i
ParseValueAt(s, i0) ==
    LET i == SkipWs(s, i0)
        c == At(s, i)
    IN  CASE c = 34 -> ParseString(s, i)
          [] IsDigit(c) -> ParseNumber(s, i)
          [] c = 91 ->
               IF At(s, SkipWs(s, i + 1)) = 93
               THEN [ok |-> TRUE, val |-> JArr(<<>>), pos |-> SkipWs(s, i + 1) + 1]
               ELSE ParseItems(s, i + 1, <<>>)
          [] c = 123 ->
               IF At(s, SkipWs(s, i + 1)) = 125
               THEN [ok |-> TRUE, val |-> JObj(<<>>), pos |-> SkipWs(s, i + 1) + 1]
               ELSE ParseMembers(s, i + 1, <<>>)
          [] OTHER -> ParseFail

\* the items of an array after "[" or ",", acc the items read so far
ParseItems(s, i, acc) ==
    LET r == ParseValueAt(s, i)
        k == SkipWs(s, r.pos)
    IN  IF ~r.ok THEN ParseFail
        ELSE IF At(s, k) = 44 THEN ParseItems(s, k + 1, Append(acc, r.val))
        ELSE IF At(s, k) = 93
        THEN [ok |-> TRUE, val |-> JArr(Append(acc, r.val)), pos |-> k + 1]
        ELSE ParseFail

\* the members of an object after "{" or ",", acc the members read so far
ParseMembers(s, i, acc) ==
    LET key == ParseString(s, SkipWs(s, i))
        c == SkipWs(s, key.pos)
        r == ParseValueAt(s, c + 1)
        k == SkipWs(s, r.pos)
        member == [k |-> key.val.v, val |-> r.val]
    IN  IF ~key.ok \/ At(s, c) # 58 THEN ParseFail
        ELSE IF ~r.ok THEN ParseFail
        ELSE IF At(s, k) = 44 THEN ParseMembers(s, k + 1, Append(acc, member))
        ELSE IF At(s, k) = 125
        THEN [ok |-> TRUE, val |-> JObj(Append(acc, member)), pos |-> k + 1]
        ELSE ParseFail

RECURSIVE Normalize(_)
RECURSIVE NormalizeMembers(_, _)
\* the serde_json::Value of a raw value: members sorted, a later duplicate wins
Normalize(raw) ==
    CASE raw.t = "arr" -> JArr([i \in 1..Len(raw.v) |-> Normalize(raw.v[i])])
      [] raw.t = "obj" -> JObj(NormalizeMembers(raw.v, <<>>))
      [] OTHER -> raw

NormalizeMembers(members, acc) ==
    IF members = <<>> THEN acc
    ELSE NormalizeMembers(Tail(members),
                          MapInsert(acc, Head(members).k, Normalize(Head(members).val)))

\* the members of a raw object that carry key k, in text order
Field(raw, k) == SelectSeq(raw.v, LAMBDA mem : mem.k = k)

\* Deserialize for FastMessageMetaData { uts: u64, name: String }: both
\* fields required, a duplicate refused, other fields ignored
MetaFromRaw(raw) ==
    IF raw.t # "obj" THEN [ok |-> FALSE]
    ELSE LET uts == Field(raw, KEY_UTS)
             name == Field(raw, KEY_NAME)
         IN  IF Len(uts) # 1 \/ Len(name) # 1 THEN [ok |-> FALSE]
             ELSE IF uts[1].val.t # "num" \/ name[1].val.t # "str" THEN [ok |-> FALSE]
             ELSE [ok |-> TRUE, val |-> [uts |-> uts[1].val.v[1], name |-> name[1].val.v]]

\* Deserialize for FastMessageData { m: FastMessageMetaData, d: Value }
DataFromRaw(raw) ==
    IF raw.t # "obj" THEN [ok |-> FALSE]
    ELSE LET m == Field(raw, KEY_M)
             d == Field(raw, KEY_D)
         IN  IF Len(m) # 1 \/ Len(d) # 1 THEN [ok |-> FALSE]
             ELSE LET meta == MetaFromRaw(m[1].val)
                  IN  IF ~meta.ok THEN [ok |-> FALSE]
                      ELSE [ok |-> TRUE,
                            val |-> [m |-> meta.val, d |-> Normalize(d[1].val)]]

\* serde_json::from_str::<FastMessageData>(text): one value, then only blanks
from_str(text) ==
    LET r == ParseValueAt(text, 1)
    IN  IF ~r.ok \/ SkipWs(text, r.pos) <= Len(text) THEN [ok |-> FALSE]
        ELSE DataFromRaw(r.val)

\* str::from_utf8(bytes).is_ok(): every byte that is not a continuation byte
\* is a valid lead byte followed by exactly its continuation bytes
from_utf8_ok(b) ==
    LET Cont(j) == At(b, j) >= 128 /\ At(b, j) <= 191
        Follow(c) == CASE c < 128 -> 0
                       [] c >= 194 /\ c <= 223 -> 1
                       [] c >= 224 /\ c <= 239 -> 2
                       [] c >= 240 /\ c <= 244 -> 3
                       [] OTHER -> -1
    IN  /\ ~Cont(1)
        /\ \A i \in 1..Len(b) :
              Cont(i) \/
                LET c == b[i]
                    n == Follow(c)
                IN  /\ n >= 0
                    /\ \A j \in (i + 1)..(i + n) : Cont(j)
                    /\ ~Cont(i + n + 1)
                    /\ (c = 224 => At(b, i + 1) >= 160)
                    /\ (c = 237 => At(b, i + 1) <= 159)
                    /\ (c = 240 => At(b, i + 1) >= 144)
                    /\ (c = 244 => At(b, i + 1) <= 143)

(***************************************************************************)
(* protocol.rs: the header layout.  Offsets count from 0 as in the source; *)
(* Byte(buf, off) reads the byte at such an offset.                        *)
(***************************************************************************)
FP_OFF_TYPE == 1
FP_OFF_STATUS == 2
FP_OFF_MSGID == 3
FP_OFF_CRC == 7
FP_OFF_DATALEN == 11
FP_OFF_DATA == 15
FP_HEADER_SZ == FP_OFF_DATA
FP_VERSION_2 == 2
FP_VERSION_CURRENT == FP_VERSION_2

Byte(buf, off) == buf[off + 1]

\* &buf[from..to]
Slice(buf, from, to) == SubSeq(buf, from + 1, to)

\* Option<T>: None is the empty sequence, Some(x) the sequence of x alone
None == <<>>
Some(x) == <<x>>

\* FastMessageType and FastMessageStatus with their discriminants
\* (ToPrimitive::to_u8, FromPrimitive::from_u8)
type_to_u8(msg_type) == CASE msg_type = "Json" -> Some(1) [] OTHER -> None

type_from_u8(b) == CASE b = 1 -> Some("Json") [] OTHER -> None

status_to_u8(status) ==
    CASE status = "Data" -> Some(1)
      [] status = "End" -> Some(2)
      [] status = "Error" -> Some(3)
      [] OTHER -> None

status_from_u8(b) ==
    CASE b = 1 -> Some("Data")
      [] b = 2 -> Some("End")
      [] b = 3 -> Some("Error")
      [] OTHER -> None

\* FastMessage::data, FastMessage::end and FastMessage::error.  The time
\* FastMessageData::new reads from the clock is the parameter uts.
FastMessageData_new(n, d, uts) == [m |-> [uts |-> uts, name |-> n], d |-> d]

FastMessage_data(msg_id, data) ==
    [msg_type |-> "Json", status |-> "Data", id |-> msg_id, msg_size |-> None,
     data |-> data]

\* FastMessage::end giving the END frame an object for d
FastMessage_end_object(msg_id, method, uts) ==
    [msg_type |-> "Json", status |-> "End", id |-> msg_id, msg_size |-> None,
     data |-> FastMessageData_new(method, JObj(<<>>), uts)]

FastMessage_end(msg_id, method, uts) ==
    [msg_type |-> "Json", status |-> "End", id |-> msg_id, msg_size |-> None,
     data |-> FastMessageData_new(method, JArr(<<>>), uts)]

FastMessage_error(msg_id, data) ==
    [msg_type |-> "Json", status |-> "Error", id |-> msg_id, msg_size |-> None,
     data |-> data]

\* encode_msg(msg, buf): buf with the frame of msg appended.  Both enums
\* always have a discriminant, so the Err arms are never taken.
encode_msg(msg, buf) ==
    LET data_str == to_string(msg.data)
    IN  buf \o << FP_VERSION_CURRENT,
                  type_to_u8(msg.msg_type)[1],
                  status_to_u8(msg.status)[1] >>
            \o put_u32_be(msg.id)
            \o put_u32_be(u32_from(Crc16Arc(data_str)))
            \o put_u32_be(u32_from(Len(data_str)))
            \o data_str

RECURSIVE encode_from(_, _, _)
encode_from(item, i, buf) ==
    IF i > Len(item) THEN buf ELSE encode_from(item, i + 1, encode_msg(item[i], buf))

\* <FastRpc as Encoder>::encode(item, buf)
encode(item, buf) == encode_from(item, 1, buf)

(***************************************************************************)
(* FastMessage::parse.  A result is [tag |-> "Ok", msg], or                *)
(* [tag |-> "NotEnoughBytes", n], or [tag |-> "IOError", err].             *)
(***************************************************************************)
NotEnoughBytes(n) == [tag |-> "NotEnoughBytes", n |-> n]
IOError(e) == [tag |-> "IOError", err |-> e]
Ok(x) == [tag |-> "Ok", msg |-> x]

\* check_buffer_size reporting a short buffer as an error
check_buffer_size_strict(buf) ==
    IF Len(buf) < FP_HEADER_SZ THEN IOError("Short buffer") ELSE Ok(<<>>)

check_buffer_size(buf) ==
    IF Len(buf) < FP_HEADER_SZ THEN NotEnoughBytes(Len(buf)) ELSE Ok(<<>>)

parse_header(buf) ==
    LET msg_type == type_from_u8(Byte(buf, FP_OFF_TYPE))
        status == status_from_u8(Byte(buf, FP_OFF_STATUS))
    IN  IF msg_type = None THEN IOError("Failed to parse message type")
        ELSE IF status = None THEN IOError("Failed to parse message status")
        ELSE Ok([msg_type |-> msg_type[1],
                 status |-> status[1],
                 id |-> read_u32(Slice(buf, FP_OFF_MSGID, FP_OFF_MSGID + 4)),
                 crc |-> read_u32(Slice(buf, FP_OFF_CRC, FP_OFF_CRC + 4)),
                 data_len |-> as_usize(read_u32(Slice(buf, FP_OFF_DATALEN,
                                                       FP_OFF_DATALEN + 4)))])

validate_data_length(buf, data_length) ==
    IF Len(buf) < FP_HEADER_SZ + data_length THEN NotEnoughBytes(Len(buf)) ELSE Ok(<<>>)

\* validate_crc letting a mismatch pass
validate_crc_ignored(data_buf, crc) == Ok(<<>>)

\* validate_crc letting a crc field of zero pass, as a peer that does not
\* compute the checksum would need
validate_crc_zero_passes(data_buf, crc) ==
    IF crc # u32_from(Crc16Arc(data_buf)) /\ crc # u32_from(0)
    THEN IOError("Calculated CRC does not match the provided CRC")
    ELSE Ok(<<>>)

validate_crc(data_buf, crc) ==
    IF crc # u32_from(Crc16Arc(data_buf))
    THEN IOError("Calculated CRC does not match the provided CRC")
    ELSE Ok(<<>>)

\* the arm of parse_data for valid UTF-8: serde_json::from_str(data_str)
\* with its error mapped
parse_data_str(r) ==
    IF r.ok THEN Ok(r.val) ELSE IOError("Failed to parse data payload as JSON")

parse_data(data_buf) ==
    IF from_utf8_ok(data_buf)
    THEN parse_data_str(from_str(data_buf))
    ELSE IOError("Failed to parse data payload as UTF-8")

\* the last statements of parse: the message built from the header and the
\* data, with 15 + data_len as msg_size for a message of every status
parse_build_size_always(header, data) ==
    IF data.tag # "Ok" THEN data
    ELSE Ok([msg_type |-> header.msg_type,
             status |-> header.status,
             id |-> header.id,
             msg_size |-> Some(FP_OFF_DATA + header.data_len),
             data |-> data.msg])

\* the last statements of parse: the message built from the header and the
\* data (data: the result of parse_data, returned when it is an error)
parse_build(header, data) ==
    IF data.tag # "Ok" THEN data
    ELSE Ok([msg_type |-> header.msg_type,
             status |-> header.status,
             id |-> header.id,
             msg_size |-> IF header.status = "End" THEN None
                          ELSE Some(FP_OFF_DATA + header.data_len),
             data |-> data.msg])

\* parse from validate_crc on (crc: its result, returned when an error)
parse_crc(header, raw_data, crc) ==
    IF crc.tag # "Ok" THEN crc ELSE parse_build(header, parse_data(raw_data))

\* parse from validate_data_length on (len: its result, returned when an
\* error)
parse_len(buf, header, len) ==
    IF len.tag # "Ok" THEN len
    ELSE parse_crc(header,
                   Slice(buf, FP_OFF_DATA, FP_OFF_DATA + header.data_len),
                   validate_crc(Slice(buf, FP_OFF_DATA, FP_OFF_DATA + header.data_len),
                                header.crc))

\* parse from parse_header on (header: its result, returned when an error)
parse_head(buf, header) ==
    IF header.tag # "Ok" THEN header
    ELSE parse_len(buf, header.msg, validate_data_length(buf, header.msg.data_len))

\* parse checking the length of the payload ahead of the header's type and
\* status
parse_size_length_first(buf, size) ==
    IF size.tag # "Ok" THEN size
    ELSE IF validate_data_length(buf, as_usize(read_u32(Slice(buf, FP_OFF_DATALEN,
                                                          FP_OFF_DATALEN + 4)))).tag # "Ok"
    THEN NotEnoughBytes(Len(buf))
    ELSE parse_head(buf, parse_header(buf))

\* parse from check_buffer_size on (size: its result, returned when an
\* error)
parse_size(buf, size) ==
    IF size.tag # "Ok" THEN size ELSE parse_head(buf, parse_header(buf))

\* FastMessage::parse(buf): each step's error is returned by `?`
parse(buf) == parse_size(buf, check_buffer_size(buf))

(***************************************************************************)
(* <FastRpc as Decoder>::decode.  A result is [tag, msgs, buf]: tag "Ok"   *)
(* with the messages decoded (none: Ok(None)) and the buffer left, "Err"   *)
(* for a parse error (the messages decoded so far are dropped with it; the *)
(* buffer stays advanced past them), or "Panic" when BytesMut::advance is  *)
(* asked for more bytes than the buffer holds.                             *)
(***************************************************************************)
RECURSIVE decode_loop(_, _)

\* the arms of the match on parse's result discarding the bytes of an
\* incomplete frame
decode_match_discard(buf, msgs, r) ==
    CASE r.tag = "Ok" -> decode_loop(Drop(buf, r.advance), Append(msgs, r.msg))
      [] r.tag = "Panic" -> [tag |-> "Panic", msgs |-> <<>>, buf |-> buf]
      [] r.tag = "NotEnoughBytes" -> [tag |-> "Ok", msgs |-> msgs, buf |-> <<>>]
      [] OTHER -> [tag |-> "Err", msgs |-> <<>>, buf |-> buf]

\* the Ok arm's advance: the header size and the length of the message's
\* data serialized again; "Panic" when the buffer is shorter than that
decode_advance(buf, msg, data_len) ==
    IF FP_HEADER_SZ + data_len > Len(buf)
    THEN [tag |-> "Panic"]
    ELSE [tag |-> "Ok", msg |-> msg, advance |-> FP_HEADER_SZ + data_len]

\* FastMessage::parse(&buf) with, for an Ok, the advance that follows
decode_parse(buf, r) ==
    IF r.tag = "Ok"
    THEN decode_advance(buf, r.msg, Len(to_string(r.msg.data)))
    ELSE r

\* the arms of the match on parse's result dropping the buffer at an error
\* and returning the messages decoded
decode_match_skip(buf, msgs, r) ==
    CASE r.tag = "Ok" -> decode_loop(Drop(buf, r.advance), Append(msgs, r.msg))
      [] r.tag = "Panic" -> [tag |-> "Panic", msgs |-> <<>>, buf |-> buf]
      [] r.tag = "NotEnoughBytes" -> [tag |-> "Ok", msgs |-> msgs, buf |-> buf]
      [] OTHER -> [tag |-> "Ok", msgs |-> msgs, buf |-> <<>>]

\* the arms of the match on parse's result: a message is pushed and the
\* loop goes on, NotEnoughBytes ends the loop, an error ends decode
decode_match(buf, msgs, r) ==
    CASE r.tag = "Ok" -> decode_loop(Drop(buf, r.advance), Append(msgs, r.msg))
      [] r.tag = "Panic" -> [tag |-> "Panic", msgs |-> <<>>, buf |-> buf]
      [] r.tag = "NotEnoughBytes" -> [tag |-> "Ok", msgs |-> msgs, buf |-> buf]
      [] OTHER -> [tag |-> "Err", msgs |-> <<>>, buf |-> buf]

\* the while loop of decode
decode_loop(buf, msgs) ==
    IF buf = <<>> THEN [tag |-> "Ok", msgs |-> msgs, buf |-> buf]
    ELSE decode_match(buf, msgs, decode_parse(buf, parse(buf)))

\* the arms of the match on parse's result, leaving the loop after a message
decode_first_match(buf, r) ==
    CASE r.tag = "Ok" -> [tag |-> "Ok", msgs |-> << r.msg >>, buf |-> Drop(buf, r.advance)]
      [] r.tag = "Panic" -> [tag |-> "Panic", msgs |-> <<>>, buf |-> buf]
      [] r.tag = "NotEnoughBytes" -> [tag |-> "Ok", msgs |-> <<>>, buf |-> buf]
      [] OTHER -> [tag |-> "Err", msgs |-> <<>>, buf |-> buf]

\* decode returning after the first message
decode_first(buf) ==
    IF buf = <<>> THEN [tag |-> "Ok", msgs |-> <<>>, buf |-> buf]
    ELSE decode_first_match(buf, decode_parse(buf, parse(buf)))

\* <FastRpc as Decoder>::decode(buf)
decode(buf) == decode_loop(buf, <<>>)

(***************************************************************************)
(* The messages of the model.                                              *)
(***************************************************************************)
NAME_A == <<97>>
NAME_ECHO == <<101, 99, 104, 111>>
KEY_MESSAGE == <<109, 101, 115, 115, 97, 103, 101>>
FAST_ERROR == <<70, 97, 115, 116, 69, 114, 114, 111, 114>>

\* json!({"name": name, "message": message})
ErrorValue(name, message) ==
    JObj(MapInsert(MapInsert(<<>>, KEY_NAME, JStr(name)), KEY_MESSAGE, JStr(message)))

\* message ids: the least, one with four different bytes, the greatest u32
Ids == { <<0, 0>>, <<258, 772>>, <<65535, 65535>> }

Statuses == { "Data", "End", "Error" }

\* payloads: the shapes the crate's property tests draw (an empty array, an
\* empty object, a nested value) and an error object
DataUniverse ==
    { FastMessageData_new(NAME_A, JArr(<<>>), 0),
      FastMessageData_new(NAME_A, JObj(<<>>), 7),
      FastMessageData_new(NAME_ECHO, JArr(<<JStr(<<120>>), JNum(30)>>), 12),
      FastMessageData_new(NAME_ECHO, ErrorValue(FAST_ERROR, <<110, 111>>), 0) }

MsgUniverse ==
    { [msg_type |-> "Json", status |-> st, id |-> id, msg_size |-> None, data |-> d] :
        st \in Statuses, id \in Ids, d \in DataUniverse }

\* k copies of msg
Copies(msg, k) == [i \in 1..k |-> msg]

\* the message lists of the round trip and of bundling: every message,
\* one or more times
Repeats == { Copies(msg, k) : msg \in MsgUniverse, k \in 1..MaxCount }

\* the messages the splitter is fed in chunks: one of each status
SplitUniverse ==
    { m \in MsgUniverse :
        /\ m.id = <<258, 772>>
        /\ \/ m.status = "Data" /\ m.data.m.uts = 12 /\ m.data.d.t = "arr"
           \/ m.status = "End" /\ m.data.m.uts = 0 /\ m.data.d.t = "arr"
           \/ m.status = "Error" /\ m.data.m.uts = 0 /\ m.data.d.t = "obj" }

\* the message lists the splitter is fed in chunks: bundles of one message,
\* and a DATA message followed by a terminator
Bundles ==
    { Copies(msg, k) : msg \in SplitUniverse, k \in 1..MaxCount }
    \cup { <<m1, m2>> : m1 \in { m \in SplitUniverse : m.status = "Data" },
                        m2 \in { m \in SplitUniverse : m.status # "Data" } }

\* equality of two messages in the fields a peer observes: all but msg_size
SameMessage(a, b) ==
    /\ a.msg_type = b.msg_type
    /\ a.status = b.status
    /\ a.id = b.id
    /\ a.data = b.data

(***************************************************************************)
(* State.                                                                  *)
(***************************************************************************)
VARIABLES
    \* ---- the codec run on a message list (prop_fast_message_* of protocol.rs)
    phase,      \* "none", "new", "encoded", "parsed", "failed"
    item,       \* the messages to encode
    write_buf,  \* the encoded bytes not yet handed to the decoder
    parsed,     \* None, or Some(the result of FastMessage::parse on the encoding)
    buf,        \* the decoder's buffer
    msgs,       \* the messages FastRpc::decode has yielded, over all calls
    damaged,    \* whether a byte of the encoding was changed on the way
    \* ---- one server connection (server.rs process)
    reqs,       \* the requests the client sends on the connection
    tail,       \* how the client's stream goes: "whole", "cut", "damaged", ...
    net,        \* the client's bytes the server has not read yet
    rd,         \* the read buffer of the Framed transport
    calls,      \* the handler's invocations: [req, res], in order
    wire,       \* the bytes the server has written to the connection
    srv,        \* "none", "running", "closed", "failed", "panicked"
    \* ---- one client::receive call (client.rs)
    resp,       \* the bytes the server sends in answer
    rx,         \* the bytes of resp the client has not read yet
    cb_fail_at, \* the invocation at which the callback returns Err (0: none)
    msg_buf,    \* receive's msg_buf
    total_bytes, \* receive's total_bytes
    result,     \* receive's result
    stream_end, \* receive's stream_end: TRUE once receive returns
    cb,         \* the frames the callback has been invoked with, in order
    returned,   \* the receive calls that returned before this one: [result, cb]
    \* ---- the client::send calls on one connection (client.rs)
    msg_id,     \* the FastMessageId: the usize it holds, in 16-bit limbs
    sent,       \* the send calls: [id, frame, ret], in order
    out         \* the bytes the stream has accepted

codecVars == << phase, item, write_buf, parsed, buf, msgs, damaged >>

serverVars == << reqs, tail, net, rd, calls, wire, srv >>

clientVars == << resp, rx, cb_fail_at, msg_buf, total_bytes, result, stream_end, cb,
                returned >>

sendVars == << msg_id, sent, out >>

vars == << codecVars, serverVars, clientVars, sendVars >>

(***************************************************************************)
(* The codec specifications.  SpecCodec: a bundle of one message is        *)
(* encoded, its first frame parsed, and the whole decoded by one call      *)
(* (prop_fast_message_roundtrip, _bundling, _decoding).  SpecSplit: a      *)
(* message list is encoded and handed to the decoder in chunks of any      *)
(* sizes, one decode call after each chunk.                                *)
(***************************************************************************)
\* no server connection
ServerIdle ==
    /\ reqs = <<>>
    /\ tail = "whole"
    /\ net = <<>>
    /\ rd = <<>>
    /\ calls = <<>>
    /\ wire = <<>>
    /\ srv = "none"

\* no send call
SendIdle ==
    /\ msg_id = << 0, 0 >>
    /\ sent = <<>>
    /\ out = <<>>

\* no receive call
ClientIdle ==
    /\ resp = <<>>
    /\ rx = <<>>
    /\ cb_fail_at = 0
    /\ msg_buf = <<>>
    /\ total_bytes = 0
    /\ result = [tag |-> "Ok", n |-> 0]
    /\ stream_end = TRUE
    /\ cb = <<>>
    /\ returned = <<>>

\* no codec run
CodecIdle ==
    /\ phase = "none"
    /\ item = <<>>
    /\ write_buf = <<>>
    /\ parsed = None
    /\ buf = <<>>
    /\ msgs = <<>>
    /\ damaged = FALSE

CodecStart ==
    /\ ServerIdle
    /\ ClientIdle
    /\ SendIdle
    /\ phase = "new"
    /\ write_buf = <<>>
    /\ parsed = None
    /\ buf = <<>>
    /\ msgs = <<>>
    /\ damaged = FALSE

CodecInit == CodecStart /\ item \in Repeats

SplitInit == CodecStart /\ item \in Bundles

\* FastRpc::encode(item, &mut write_buf)
Encode ==
    /\ phase = "new"
    /\ write_buf' = encode(item, <<>>)
    /\ phase' = "encoded"
    /\ UNCHANGED << item, parsed, buf, msgs, damaged >>
    /\ UNCHANGED serverVars
    /\ UNCHANGED clientVars
    /\ UNCHANGED sendVars

\* FastMessage::parse(&write_buf)
ParseWhole ==
    /\ phase = "encoded"
    /\ parsed' = Some(parse(write_buf))
    /\ phase' = "parsed"
    /\ UNCHANGED << item, write_buf, buf, msgs, damaged >>
    /\ UNCHANGED serverVars
    /\ UNCHANGED clientVars
    /\ UNCHANGED sendVars

\* the next byte of the encoding is changed on the way (its lowest bit flips)
Damage ==
    /\ phase = "parsed"
    /\ ~damaged
    /\ write_buf # <<>>
    /\ write_buf' = [write_buf EXCEPT ![1] =
                        IF @ % 2 = 0 THEN @ + 1 ELSE @ - 1]
    /\ damaged' = TRUE
    /\ UNCHANGED << phase, item, parsed, buf, msgs >>
    /\ UNCHANGED serverVars
    /\ UNCHANGED clientVars
    /\ UNCHANGED sendVars

\* n more bytes are appended to the buffer and FastRpc::decode is called;
\* a damaged encoding arrives in one chunk
Feed(n) ==
    /\ phase = "parsed"
    /\ damaged => n = Len(write_buf)
    /\ \E r \in { decode(buf \o Take(write_buf, n)) } :
          /\ write_buf' = Drop(write_buf, n)
          /\ buf' = r.buf
          /\ msgs' = msgs \o r.msgs
          /\ phase' = IF r.tag = "Ok" THEN "parsed" ELSE "failed"
    /\ UNCHANGED << item, parsed, damaged >>
    /\ UNCHANGED serverVars
    /\ UNCHANGED clientVars
    /\ UNCHANGED sendVars

\* the whole encoding is handed to one FastRpc::decode call
DecodeAll == write_buf # <<>> /\ Feed(Len(write_buf))

CodecNext ==
    \/ Encode
    \/ ParseWhole
    \/ DecodeAll

SplitNext ==
    \/ Encode
    \/ ParseWhole
    \/ Damage
    \/ \E n \in 1..Len(write_buf) : Feed(n)

SpecCodec == CodecInit /\ [][CodecNext]_vars

SpecSplit == SplitInit /\ [][SplitNext]_vars

(***************************************************************************)
(* SpecWire: FastMessage::parse on frames that no call of encode_msg       *)
(* wrote: the encoding of a message with one bit of its payload flipped,   *)
(* with another version, type or status byte, with a crc field of zero,    *)
(* with a payload that has no m.uts or is not UTF-8, and on the first      *)
(* bytes of such frames; FastRpc::decode on a frame whose payload text has *)
(* a blank in it.                                                          *)
(***************************************************************************)
\* the messages of SpecWire: one of each status
WireUniverse == { << m >> : m \in SplitUniverse }

\* the version and type bytes a peer may send
VersionBytes == { 0, 1, 2, 3, 255 }
TypeBytes == { 0, 1, 2, 255 }

\* bytes with bit number bit of the byte at offset off flipped
FlipBit(bytes, off, bit) == [bytes EXCEPT ![off + 1] = Xor8(@, 2 ^ bit)]

\* bytes with the byte at offset off replaced by b
SetByte(bytes, off, b) == [bytes EXCEPT ![off + 1] = b]

\* the payload text of data without the uts field: {"m":{"name":"N"},"d":D}
to_string_without_uts(data) ==
       <<123, 34>> \o KEY_M \o <<34, 58>>
    \o <<123, 34>> \o KEY_NAME \o <<34, 58, 34>> \o data.m.name \o <<34, 125>>
    \o <<44, 34>> \o KEY_D \o <<34, 58>> \o ValueToString(data.d)
    \o <<125>>

\* the frame of msg around the payload text data_str, with the header
\* encode_msg writes for that text
frame_around(msg, data_str) ==
    << FP_VERSION_CURRENT, type_to_u8(msg.msg_type)[1], status_to_u8(msg.status)[1] >>
        \o put_u32_be(msg.id)
        \o put_u32_be(u32_from(Crc16Arc(data_str)))
        \o put_u32_be(u32_from(Len(data_str)))
        \o data_str

WireInit == CodecStart /\ item \in WireUniverse

\* the frame arrives with one bit of its payload flipped and is parsed
ParseFlipped(off, bit) ==
    /\ phase = "encoded"
    /\ off \in FP_OFF_DATA..(Len(write_buf) - 1)
    /\ write_buf' = FlipBit(write_buf, off, bit)
    /\ parsed' = Some(parse(FlipBit(write_buf, off, bit)))
    /\ phase' = "flipped"
    /\ damaged' = TRUE
    /\ UNCHANGED << item, buf, msgs >>
    /\ UNCHANGED serverVars
    /\ UNCHANGED clientVars
    /\ UNCHANGED sendVars

\* the frame arrives with the version byte v and is parsed
ParseVersion(v) ==
    /\ phase = "encoded"
    /\ write_buf' = SetByte(write_buf, 0, v)
    /\ parsed' = Some(parse(SetByte(write_buf, 0, v)))
    /\ phase' = "version"
    /\ damaged' = (v # FP_VERSION_CURRENT)
    /\ UNCHANGED << item, buf, msgs >>
    /\ UNCHANGED serverVars
    /\ UNCHANGED clientVars
    /\ UNCHANGED sendVars

\* the frame arrives with the type byte t and is parsed
ParseType(t) ==
    /\ phase = "encoded"
    /\ write_buf' = SetByte(write_buf, FP_OFF_TYPE, t)
    /\ parsed' = Some(parse(SetByte(write_buf, FP_OFF_TYPE, t)))
    /\ phase' = "type"
    /\ damaged' = (t # type_to_u8("Json")[1])
    /\ UNCHANGED << item, buf, msgs >>
    /\ UNCHANGED serverVars
    /\ UNCHANGED clientVars
    /\ UNCHANGED sendVars

\* a peer sends the message with no m.uts in its payload, and it is parsed
ParseWithoutUts ==
    /\ phase = "encoded"
    /\ write_buf' = frame_around(item[1], to_string_without_uts(item[1].data))
    /\ parsed' = Some(parse(frame_around(item[1], to_string_without_uts(item[1].data))))
    /\ phase' = "without_uts"
    /\ damaged' = TRUE
    /\ UNCHANGED << item, buf, msgs >>
    /\ UNCHANGED serverVars
    /\ UNCHANGED clientVars
    /\ UNCHANGED sendVars

\* the payload text of data with a blank after its opening brace: a JSON
\* text of the same value that serde_json::to_string does not write
to_string_spaced(data) == <<123, 32>> \o Tail(to_string(data))

\* the decoder's variables after a call of FastRpc::decode that returned r
Decoded(r) ==
    /\ parsed' = Some([tag |-> r.tag])
    /\ msgs' = r.msgs
    /\ buf' = r.buf

\* a peer sends the message twice, the first frame with a blank in its
\* payload text, and FastRpc::decode is called on the two frames
DecodeSpaced ==
    /\ phase = "encoded"
    /\ \E bytes \in { frame_around(item[1], to_string_spaced(item[1].data)) \o write_buf } :
          /\ write_buf' = bytes
          /\ Decoded(decode(bytes))
    /\ phase' = "spaced"
    /\ damaged' = FALSE
    /\ UNCHANGED item
    /\ UNCHANGED serverVars
    /\ UNCHANGED clientVars
    /\ UNCHANGED sendVars

\* the exponents of the numbers a peer writes as 1e0, 1e1, ...
MaxExponent == 2

\* the payload text of data with the number 10^k in exponent form as its
\* d: {"m":{"uts":U,"name":"N"},"d":[1ek]}
to_string_exponent(data, k) ==
       <<123, 34>> \o KEY_M \o <<34, 58>>
    \o <<123, 34>> \o KEY_UTS \o <<34, 58>> \o Digits(data.m.uts)
    \o <<44, 34>> \o KEY_NAME \o <<34, 58, 34>> \o data.m.name \o <<34, 125>>
    \o <<44, 34>> \o KEY_D \o <<34, 58>> \o <<91, 49, 101>> \o Digits(k) \o <<93>>
    \o <<125>>

\* a peer sends a frame whose payload holds a number in exponent form,
\* alone or followed by the frame of the message, and FastRpc::decode is
\* called on the bytes
DecodeExponent(k, followed) ==
    /\ phase = "encoded"
    /\ \E bytes \in { frame_around(item[1], to_string_exponent(item[1].data, k))
                          \o (IF followed THEN write_buf ELSE <<>>) } :
          /\ write_buf' = bytes
          /\ Decoded(decode(bytes))
    /\ phase' = "exponent"
    /\ damaged' = FALSE
    /\ UNCHANGED item
    /\ UNCHANGED serverVars
    /\ UNCHANGED clientVars
    /\ UNCHANGED sendVars

\* the status bytes a peer may send
StatusBytes == { 0, 1, 2, 3, 4, 255 }

\* the frame arrives with the status byte st and is parsed
ParseStatus(st) ==
    /\ phase = "encoded"
    /\ write_buf' = SetByte(write_buf, FP_OFF_STATUS, st)
    /\ parsed' = Some(parse(SetByte(write_buf, FP_OFF_STATUS, st)))
    /\ phase' = "status"
    /\ damaged' = (st # status_to_u8(item[1].status)[1])
    /\ UNCHANGED << item, buf, msgs >>
    /\ UNCHANGED serverVars
    /\ UNCHANGED clientVars
    /\ UNCHANGED sendVars

\* the payload text of data with the byte 255, which no UTF-8 text holds,
\* in the place of its last byte
to_string_not_utf8(data) == [to_string(data) EXCEPT ![Len(to_string(data))] = 255]

\* a peer sends the message with a payload that is not UTF-8 (and the crc
\* of that payload), and it is parsed
ParseNotUtf8 ==
    /\ phase = "encoded"
    /\ write_buf' = frame_around(item[1], to_string_not_utf8(item[1].data))
    /\ parsed' = Some(parse(frame_around(item[1], to_string_not_utf8(item[1].data))))
    /\ phase' = "not_utf8"
    /\ damaged' = TRUE
    /\ UNCHANGED << item, buf, msgs >>
    /\ UNCHANGED serverVars
    /\ UNCHANGED clientVars
    /\ UNCHANGED sendVars

\* the frames of which a part is parsed: as encoded, and those a peer sent
\* with another version, type or status byte, with a crc field of zero,
\* with no m.uts, with a payload that is not UTF-8
PrefixPhases ==
    { "encoded", "version", "type", "status", "zero_crc", "without_uts", "not_utf8" }

\* the numbers of bytes that have arrived when parse is called: none, one
\* less than a header, a header, a header and one byte, all but one byte
PrefixLens(bytes) ==
    { 0, FP_HEADER_SZ - 1, FP_HEADER_SZ, FP_HEADER_SZ + 1, Len(bytes) - 1 }

\* parse is called when the first n bytes of the frame have arrived
ParsePrefix(n) ==
    /\ phase \in PrefixPhases
    /\ n \in PrefixLens(write_buf)
    /\ buf' = Take(write_buf, n)
    /\ parsed' = Some(parse(Take(write_buf, n)))
    /\ phase' = "prefix"
    /\ UNCHANGED << item, write_buf, msgs, damaged >>
    /\ UNCHANGED serverVars
    /\ UNCHANGED clientVars
    /\ UNCHANGED sendVars

\* bytes with the crc field of the header set to zero
ZeroCrc(bytes) ==
    [i \in 1..Len(bytes) |->
        IF i - 1 \in FP_OFF_CRC..(FP_OFF_DATALEN - 1) THEN 0 ELSE bytes[i]]

\* a peer sends the frame with a crc field of zero, and it is parsed
ParseZeroCrc ==
    /\ phase = "encoded"
    /\ write_buf' = ZeroCrc(write_buf)
    /\ parsed' = Some(parse(ZeroCrc(write_buf)))
    /\ phase' = "zero_crc"
    /\ damaged' = TRUE
    /\ UNCHANGED << item, buf, msgs >>
    /\ UNCHANGED serverVars
    /\ UNCHANGED clientVars
    /\ UNCHANGED sendVars

WireNext ==
    \/ Encode
    \/ \E off \in 0..255, bit \in 0..7 : ParseFlipped(off, bit)
    \/ \E v \in VersionBytes : ParseVersion(v)
    \/ \E t \in TypeBytes : ParseType(t)
    \/ ParseWithoutUts
    \/ ParseZeroCrc
    \/ DecodeSpaced
    \/ \E k \in 0..MaxExponent, followed \in BOOLEAN : DecodeExponent(k, followed)
    \/ \E st \in StatusBytes : ParseStatus(st)
    \/ ParseNotUtf8
    \/ \E n \in 0..255 : ParsePrefix(n)

SpecWire == WireInit /\ [][WireNext]_vars

(***************************************************************************)
(* The server: server.rs process and respond, on one connection.           *)
(***************************************************************************)
\* the microseconds FastMessageMetaData::new reads from the clock
NOW_MICROS == 12

\* the text of the error a handler returns
ERR_NO == <<110, 111>>

\* what a handler may do with a request: Ok with n DATA frames, or Err
Outcomes ==
    { [tag |-> "Ok", n |-> n] : n \in 0..MaxData }
    \cup { [tag |-> "Err", err |-> ERR_NO] }

\* what a handler that ends its list itself may do with a request: Ok with
\* n DATA frames and then a frame of status END or ERROR
TerminatingOutcomes ==
    { [tag |-> "OkThen", n |-> n, status |-> st] :
        n \in 0..MaxData, st \in { "End", "Error" } }

\* the frame of status st such a handler makes for the request msg:
\* FastMessage::end(msg.id, method) or FastMessage::error(msg.id, data)
HandlerTerminator(msg, st) ==
    IF st = "End"
    THEN FastMessage_end(msg.id, msg.data.m.name, NOW_MICROS)
    ELSE FastMessage_error(msg.id,
            FastMessageData_new(msg.data.m.name, ErrorValue(FAST_ERROR, ERR_NO), NOW_MICROS))

\* response_handler(&msg, &log) taking outcome c: the DATA frames of an echo
\* handler (FastMessage::data(msg.id, msg.data.clone())), or an error
response_handler(msg, c) ==
    CASE c.tag = "Ok" ->
            [tag |-> "Ok", frames |-> [i \in 1..c.n |-> FastMessage_data(msg.id, msg.data)]]
      [] c.tag = "OkThen" ->
            [tag |-> "Ok",
             frames |-> [i \in 1..c.n |-> FastMessage_data(msg.id, msg.data)]
                            \o << HandlerTerminator(msg, c.status) >>]
      [] OTHER -> [tag |-> "Err", err |-> c.err]

\* the arm of respond for a handler error
error_response(msg, err) ==
    FastMessage_error(msg.id,
        FastMessageData_new(msg.data.m.name, ErrorValue(FAST_ERROR, err), NOW_MICROS))

\* the arm of respond for a handler's Ok(response) pushing no END frame
ok_response_without_end(msg, response) == response

\* the arm of respond for a handler's Ok(response)
ok_response(msg, response) ==
    response \o << FastMessage_end(msg.id, msg.data.m.name, NOW_MICROS) >>

RECURSIVE respond_end_first(_, _, _, _)
\* respond's loop pushing the END frame ahead of the handler's frames
respond_end_first(batch, cs, i, acc) ==
    IF i > Len(batch) THEN acc
    ELSE LET res == response_handler(batch[i], cs[i])
             frames == IF res.tag = "Ok"
                       THEN << FastMessage_end(batch[i].id, batch[i].data.m.name, NOW_MICROS) >>
                                \o res.frames
                       ELSE << error_response(batch[i], res.err) >>
         IN  respond_end_first(batch, cs, i + 1,
                [acc EXCEPT !.responses = @ \o frames,
                            !.called = Append(@, [req |-> batch[i], res |-> res])])

RECURSIVE respond_error_and_end(_, _, _, _)
\* respond's loop pushing an END frame after the ERROR frame as well
respond_error_and_end(batch, cs, i, acc) ==
    IF i > Len(batch) THEN acc
    ELSE LET res == response_handler(batch[i], cs[i])
             frames == IF res.tag = "Ok"
                       THEN ok_response(batch[i], res.frames)
                       ELSE ok_response(batch[i], << error_response(batch[i], res.err) >>)
         IN  respond_error_and_end(batch, cs, i + 1,
                [acc EXCEPT !.responses = @ \o frames,
                            !.called = Append(@, [req |-> batch[i], res |-> res])])

RECURSIVE respond_propagate(_, _, _, _)
\* respond's loop returning the handler's error to process
respond_propagate(batch, cs, i, acc) ==
    IF i > Len(batch) THEN acc
    ELSE LET res == response_handler(batch[i], cs[i])
         IN  IF res.tag = "Ok"
             THEN respond_propagate(batch, cs, i + 1,
                    [acc EXCEPT !.responses = @ \o ok_response(batch[i], res.frames),
                                !.called = Append(@, [req |-> batch[i], res |-> res])])
             ELSE [acc EXCEPT !.tag = "Err",
                              !.called = Append(@, [req |-> batch[i], res |-> res])]

RECURSIVE respond_newest_first(_, _, _, _)
\* respond's loop putting the frames of each message ahead of those pushed
\* for the messages before it
respond_newest_first(batch, cs, i, acc) ==
    IF i > Len(batch) THEN acc
    ELSE LET res == response_handler(batch[i], cs[i])
             frames == IF res.tag = "Ok"
                       THEN ok_response(batch[i], res.frames)
                       ELSE << error_response(batch[i], res.err) >>
         IN  respond_newest_first(batch, cs, i + 1,
                [acc EXCEPT !.responses = frames \o @,
                            !.called = Append(@, [req |-> batch[i], res |-> res])])

RECURSIVE respond_from(_, _, _, _)
\* the loop of respond from message i on: the handler is called for each
\* message in turn (taking outcome cs[i]); acc holds the responses pushed
\* and the invocations made so far
respond_from(batch, cs, i, acc) ==
    IF i > Len(batch) THEN acc
    ELSE LET res == response_handler(batch[i], cs[i])
             frames == IF res.tag = "Ok"
                       THEN ok_response(batch[i], res.frames)
                       ELSE << error_response(batch[i], res.err) >>
         IN  respond_from(batch, cs, i + 1,
                [acc EXCEPT !.responses = @ \o frames,
                            !.called = Append(@, [req |-> batch[i], res |-> res])])

\* respond(batch, &mut response_handler, &log): always Ok(responses)
respond(batch, cs) ==
    respond_from(batch, cs, 1, [tag |-> "Ok", responses |-> <<>>, called |-> <<>>])

\* the i-th request of a client: client::send's FastMessage::data(id,
\* FastMessageData::new(method, args)) with ids counting from 0
Request(i) ==
    FastMessage_data(<<0, i - 1>>,
        IF i % 2 = 1
        THEN FastMessageData_new(NAME_ECHO, JArr(<< JStr(<<120>>) >>), i)
        ELSE FastMessageData_new(NAME_A, JArr(<<>>), i))

\* how a client's stream may go: with its last frame whole, cut short, or
\* with a byte of the payload changed; or with a byte of the payload of its
\* first frame changed
Tails == { "whole", "cut", "damaged", "damaged_first" }

\* bytes missing from a stream that is cut short
CutBytes == 5

StreamOf(rs, t) ==
    LET bytes == encode(rs, <<>>)
    IN  CASE t = "whole" -> bytes
          [] t = "cut" -> Take(bytes, Len(bytes) - CutBytes)
          [] t = "damaged" ->
                [bytes EXCEPT ![Len(bytes)] = IF @ % 2 = 0 THEN @ + 1 ELSE @ - 1]
          [] t = "damaged_first" ->
                [bytes EXCEPT ![Len(encode(Take(rs, 1), <<>>))] =
                                  IF @ % 2 = 0 THEN @ + 1 ELSE @ - 1]

\* the sizes a read of the socket returns
ReadSizes == { n \in 1..Len(net) : n % ReadQuantum = 0 \/ n = Len(net) }

\* a frame of status END that a client sends with the id after those of
\* its i - 1 requests
StrayEnd(i) == FastMessage_end(<<0, i - 1>>, NAME_ECHO, i)

\* the frames a client sends on a connection: requests, and requests
\* followed by a frame of status END
RequestLists ==
    { [i \in 1..k |-> Request(i)] : k \in 1..MaxReqs }
    \cup { [i \in 1..k |-> IF i = k THEN StrayEnd(i) ELSE Request(i)] : k \in 1..MaxReqs }

ServerInit ==
    /\ CodecIdle
    /\ ClientIdle
    /\ SendIdle
    /\ reqs \in RequestLists
    /\ tail \in Tails
    /\ net = StreamOf(reqs, tail)
    /\ rd = <<>>
    /\ calls = <<>>
    /\ wire = <<>>
    /\ srv = "running"

\* one turn of the loop of process on the read buffer with bytes appended
\* (eof: the peer has closed, Framed calls decode_eof): transport.next()
\* decodes; the requests decoded go to respond and the responses to
\* transport.send; a decode error, or bytes left over at the end of the
\* stream, end process with an error
ProcessWith(bytes, eof, outcomes) ==
    \E r \in { decode(rd \o bytes) } :
        /\ rd' = r.buf
        /\ \E cs \in [1..Len(r.msgs) -> outcomes] :
              \E response \in { respond(r.msgs, cs) } :
                 /\ calls' = calls \o response.called
                 /\ wire' = IF response.tag = "Ok"
                            THEN encode(response.responses, wire) ELSE wire
                 /\ srv' = CASE r.tag = "Err" -> "failed"
                             [] r.tag = "Panic" -> "panicked"
                             [] response.tag # "Ok" -> "failed"
                             [] eof /\ r.buf = <<>> -> "closed"
                             [] eof -> "failed"
                             [] OTHER -> "running"

\* one turn of the loop of process with a handler that returns DATA frames
\* or an error
Process(bytes, eof) == ProcessWith(bytes, eof, Outcomes)

\* the socket yields n bytes
ServerRead(n) ==
    /\ srv = "running"
    /\ n \in ReadSizes
    /\ net' = Drop(net, n)
    /\ Process(Take(net, n), FALSE)
    /\ UNCHANGED << reqs, tail >>
    /\ UNCHANGED codecVars
    /\ UNCHANGED clientVars
    /\ UNCHANGED sendVars

\* the socket reports the end of the stream
ServerEof ==
    /\ srv = "running"
    /\ net = <<>>
    /\ Process(<<>>, TRUE)
    /\ UNCHANGED << reqs, tail, net >>
    /\ UNCHANGED codecVars
    /\ UNCHANGED clientVars
    /\ UNCHANGED sendVars

ServerNext ==
    \/ \E n \in 1..Len(net) : ServerRead(n)
    \/ ServerEof

SpecServer == ServerInit /\ [][ServerNext]_vars

\* the socket yields n bytes to a server whose handler may end its list
\* with a frame of status END or ERROR
HandlerRead(n) ==
    /\ srv = "running"
    /\ n \in ReadSizes
    /\ net' = Drop(net, n)
    /\ ProcessWith(Take(net, n), FALSE, Outcomes \cup TerminatingOutcomes)
    /\ UNCHANGED << reqs, tail >>
    /\ UNCHANGED codecVars
    /\ UNCHANGED clientVars
    /\ UNCHANGED sendVars

HandlerNext ==
    \/ \E n \in 1..Len(net) : HandlerRead(n)
    \/ ServerEof

SpecHandler == ServerInit /\ [][HandlerNext]_vars

\* a turn of the loop of process as the runtime sees it: the task has not
\* returned, transport.next() consumes bytes of the socket or its end, and
\* the task goes on or returns.  Every step of ServerNext is such a turn,
\* and one can be taken exactly while srv = "running".
ServerTurn ==
    /\ srv = "running"
    /\ net' \in { Drop(net, n) : n \in 0..Len(net) }
    /\ srv' \in { "running", "closed", "failed", "panicked" }

\* the server's task is polled whenever its socket has bytes or has reached
\* the end of the stream (the tokio runtime wakes it), so a turn of the loop
\* of process that can be taken is taken
SpecServerFair == SpecServer /\ WF_<<net, srv>>(ServerTurn)

(***************************************************************************)
(* The client: client.rs receive and parse_and_handle_messages.            *)
(***************************************************************************)
\* the size of receive's read_buf
READ_BUF_SZ == 128

COLON_SPACE == << 58, 32 >>
UNSPECIFIED_NAME == << 85, 110, 115, 112, 101, 99, 105, 102, 105, 101, 100, 83, 101, 114, 118, 101, 114, 69, 114, 114, 111, 114 >>
UNSPECIFIED_MESSAGE == << 83, 101, 114, 118, 101, 114, 32, 114, 101, 112, 111, 114, 116, 101, 100, 32, 117, 110, 115, 112, 101, 99, 105, 102, 105, 101, 100, 32, 101, 114, 114, 111, 114, 46 >>

\* the error the callback returns
CALLBACK_ERROR == << 99, 98 >>

\* receive's result values
RecvOk(n) == [tag |-> "Ok", n |-> n]
RecvErr(kind, text) == [tag |-> "Err", kind |-> kind, text |-> text]

\* Error::from(FastMessageServerError): "{name}: {message}"
server_error_text(name, message) == name \o COLON_SPACE \o message

\* the string member k of an object's members, None when it has none
StringMember(members, k) ==
    IF \E i \in 1..Len(members) : members[i].k = k /\ members[i].val.t = "str"
    THEN Some(members[CHOOSE i \in 1..Len(members) :
                        members[i].k = k /\ members[i].val.t = "str"].val.v)
    ELSE None

\* from_value taking an error from an object only
server_error_from_value_object(d) ==
    IF d.t = "obj" /\ StringMember(d.v, KEY_NAME) # None /\ StringMember(d.v, KEY_MESSAGE) # None
    THEN Some(<< StringMember(d.v, KEY_NAME)[1], StringMember(d.v, KEY_MESSAGE)[1] >>)
    ELSE None

\* serde_json::from_value::<FastMessageServerError>(d): Some(<<name,
\* message>>) for an object with string members name and message, or an
\* array of two strings (the derived Deserialize takes both), else None
server_error_from_value(d) ==
    CASE d.t = "obj" ->
            IF StringMember(d.v, KEY_NAME) # None /\ StringMember(d.v, KEY_MESSAGE) # None
            THEN Some(<< StringMember(d.v, KEY_NAME)[1], StringMember(d.v, KEY_MESSAGE)[1] >>)
            ELSE None
      [] d.t = "arr" ->
            IF Len(d.v) = 2 /\ d.v[1].t = "str" /\ d.v[2].t = "str"
            THEN Some(<< d.v[1].v, d.v[2].v >>)
            ELSE None
      [] OTHER -> None

\* the result of parse_and_handle_messages for a frame of status ERROR
server_error(e) ==
    IF e = None
    THEN RecvErr("Other", server_error_text(UNSPECIFIED_NAME, UNSPECIFIED_MESSAGE))
    ELSE RecvErr("Other", server_error_text(e[1][1], e[1][2]))

\* response_handler(&fm) at its k-th invocation
callback(k) == IF k = cb_fail_at THEN RecvErr("Other", CALLBACK_ERROR) ELSE RecvOk(0)

RECURSIVE handle_loop(_, _, _, _)

\* the arms of the match on parse's result going on to the next frame
\* after the callback's error
handle_match_continue(read_buf, offset, st, r) ==
    CASE r.tag = "Ok" /\ r.msg.status = "End" ->
            [st EXCEPT !.action = [tag |-> "Done"]]
      [] r.tag = "Ok" /\ r.msg.msg_size = None ->
            [st EXCEPT !.action = [tag |-> "Panic"]]
      [] r.tag = "Ok" /\ r.msg.status = "Data" ->
            handle_loop(read_buf, offset + r.msg.msg_size[1],
                        IF callback(Len(st.cb) + 1).tag = "Err" \/ st.action.tag = "Err"
                        THEN RecvErr("Other", CALLBACK_ERROR)
                        ELSE [tag |-> "Trim", offset |-> offset + r.msg.msg_size[1]],
                        Append(st.cb, r.msg))
      [] r.tag = "Ok" ->
            [st EXCEPT !.action = server_error(server_error_from_value(r.msg.data.d))]
      [] r.tag = "NotEnoughBytes" -> st
      [] OTHER -> [st EXCEPT !.action = RecvErr("Other", r.err)]

\* the arms of the match on parse's result returning Keep after a frame
\* that is not complete
handle_match_keep(read_buf, offset, st, r) ==
    CASE r.tag = "Ok" /\ r.msg.status = "End" ->
            [st EXCEPT !.action = [tag |-> "Done"]]
      [] r.tag = "Ok" /\ r.msg.msg_size = None ->
            [st EXCEPT !.action = [tag |-> "Panic"]]
      [] r.tag = "Ok" /\ r.msg.status = "Data" ->
            IF callback(Len(st.cb) + 1).tag = "Err"
            THEN [action |-> callback(Len(st.cb) + 1), cb |-> Append(st.cb, r.msg)]
            ELSE handle_loop(read_buf, offset + r.msg.msg_size[1],
                             [tag |-> "Trim", offset |-> offset + r.msg.msg_size[1]],
                             Append(st.cb, r.msg))
      [] r.tag = "Ok" ->
            [st EXCEPT !.action = server_error(server_error_from_value(r.msg.data.d))]
      [] r.tag = "NotEnoughBytes" -> [st EXCEPT !.action = [tag |-> "Keep"]]
      [] OTHER -> [st EXCEPT !.action = RecvErr("Other", r.err)]

\* the arms of the match on parse's result without the arm that takes a
\* frame of status END first
handle_match_end_unwraps(read_buf, offset, st, r) ==
    CASE r.tag = "Ok" /\ r.msg.msg_size = None ->
            [st EXCEPT !.action = [tag |-> "Panic"]]
      [] r.tag = "Ok" /\ r.msg.status \in { "Data", "End" } ->
            IF callback(Len(st.cb) + 1).tag = "Err"
            THEN [action |-> callback(Len(st.cb) + 1), cb |-> Append(st.cb, r.msg)]
            ELSE handle_loop(read_buf, offset + r.msg.msg_size[1],
                             [tag |-> "Trim", offset |-> offset + r.msg.msg_size[1]],
                             Append(st.cb, r.msg))
      [] r.tag = "Ok" ->
            [st EXCEPT !.action = server_error(server_error_from_value(r.msg.data.d))]
      [] r.tag = "NotEnoughBytes" -> st
      [] OTHER -> [st EXCEPT !.action = RecvErr("Other", r.err)]

\* the arms of the match on parse's result in parse_and_handle_messages;
\* st holds the result so far and the callback's invocations
handle_match(read_buf, offset, st, r) ==
    CASE r.tag = "Ok" /\ r.msg.status = "End" ->
            [st EXCEPT !.action = [tag |-> "Done"]]
      [] r.tag = "Ok" /\ r.msg.msg_size = None ->
            [st EXCEPT !.action = [tag |-> "Panic"]]
      [] r.tag = "Ok" /\ r.msg.status = "Data" ->
            IF callback(Len(st.cb) + 1).tag = "Err"
            THEN [action |-> callback(Len(st.cb) + 1), cb |-> Append(st.cb, r.msg)]
            ELSE handle_loop(read_buf, offset + r.msg.msg_size[1],
                             [tag |-> "Trim", offset |-> offset + r.msg.msg_size[1]],
                             Append(st.cb, r.msg))
      [] r.tag = "Ok" ->
            [st EXCEPT !.action = server_error(server_error_from_value(r.msg.data.d))]
      [] r.tag = "NotEnoughBytes" -> st
      [] OTHER -> [st EXCEPT !.action = RecvErr("Other", r.err)]

\* the while loop of parse_and_handle_messages from offset on, with the
\* result so far and the frames the callback has been invoked with
handle_loop(read_buf, offset, action, called) ==
    handle_match(read_buf, offset, [action |-> action, cb |-> called],
                 parse(Drop(read_buf, offset)))

\* parse_and_handle_messages(read_buf, response_handler): the BufferAction
\* or the error it returns, and the callback's invocations
parse_and_handle_messages(read_buf, called) ==
    handle_loop(read_buf, 0, [tag |-> "Keep"], called)

\* the state of a receive call
RecvState(mb, tb, res, se, called) ==
    [msg_buf |-> mb, total_bytes |-> tb, result |-> res, stream_end |-> se, cb |-> called]

\* the match of receive going on to the next read after Done
receive_match_done_reads(st, h) ==
    CASE h.action.tag = "Keep" -> [st EXCEPT !.cb = h.cb]
      [] h.action.tag = "Trim" ->
            [st EXCEPT !.msg_buf = Drop(st.msg_buf, h.action.offset),
                       !.result = RecvOk(st.total_bytes),
                       !.cb = h.cb]
      [] h.action.tag = "Done" -> [st EXCEPT !.cb = h.cb]
      [] OTHER -> [st EXCEPT !.result = h.action, !.stream_end = TRUE, !.cb = h.cb]

\* the match of receive on the result h of parse_and_handle_messages
receive_match(st, h) ==
    CASE h.action.tag = "Keep" -> [st EXCEPT !.cb = h.cb]
      [] h.action.tag = "Trim" ->
            [st EXCEPT !.msg_buf = Drop(st.msg_buf, h.action.offset),
                       !.result = RecvOk(st.total_bytes),
                       !.cb = h.cb]
      [] h.action.tag = "Done" -> [st EXCEPT !.stream_end = TRUE, !.cb = h.cb]
      [] OTHER -> [st EXCEPT !.result = h.action, !.stream_end = TRUE, !.cb = h.cb]

\* one turn of receive's loop in which read returns the bytes read_buf
receive_read(st, read_buf) ==
    receive_match(
        [st EXCEPT !.total_bytes = @ + Len(read_buf), !.msg_buf = @ \o read_buf],
        parse_and_handle_messages(st.msg_buf \o read_buf, st.cb))

\* the Ok(0) arm leaving the result as it is
receive_eof_keep(st) == [st EXCEPT !.stream_end = TRUE]

\* one turn of receive's loop in which read returns Ok(0)
receive_eof(st) ==
    [st EXCEPT !.result = RecvErr("UnexpectedEof", <<>>), !.stream_end = TRUE]

\* the payload of the k-th DATA frame of a response
ResponseData(k) == FastMessageData_new(NAME_ECHO, JArr(<< JNum(k) >>), NOW_MICROS)

\* an ERROR frame with the data d
ErrorFrame(d) ==
    << FastMessage_error(<<0, 0>>, FastMessageData_new(NAME_ECHO, d, NOW_MICROS)) >>

\* the terminators of a response: END; ERROR with the server's error
\* object, with an empty array, with an array of two strings, with an
\* object that has a name and no message; or none when the connection ends
\* early
Terminators ==
    { << FastMessage_end(<<0, 0>>, NAME_ECHO, NOW_MICROS) >>,
      << error_response(Request(1), ERR_NO) >>,
      ErrorFrame(JArr(<<>>)),
      ErrorFrame(JArr(<< JStr(NAME_A), JStr(ERR_NO) >>)),
      ErrorFrame(JObj(<< [k |-> KEY_NAME, val |-> JStr(NAME_A)] >>)),
      <<>> }

\* the DATA frames of a response: they carry the request's id
ResponseFrames(n) == [k \in 1..n |-> FastMessage_data(<<0, 0>>, ResponseData(k))]

\* the responses to a request: DATA frames, then a terminator
Responses == { ResponseFrames(n) \o t : n \in 0..MaxFrames, t \in Terminators }

\* the byte streams a client reads: the responses, and those whose END
\* frame loses its last CutBytes bytes as the connection ends
ResponseStreams ==
    { encode(frames, <<>>) : frames \in Responses }
    \cup { Take(encode(ResponseFrames(n) \o << FastMessage_end(<<0, 0>>, NAME_ECHO, NOW_MICROS) >>, <<>>),
               Len(encode(ResponseFrames(n) \o << FastMessage_end(<<0, 0>>, NAME_ECHO, NOW_MICROS) >>, <<>>))
                 - CutBytes) : n \in 0..MaxFrames }

\* the byte streams of a server that goes on writing after a terminator:
\* a DATA frame, END or ERROR, and the frames of another response
TrailingStreams ==
    { encode(ResponseFrames(1) \o t \o ResponseFrames(1)
                \o << FastMessage_end(<<0, 0>>, NAME_ECHO, NOW_MICROS) >>, <<>>) :
        t \in { << FastMessage_end(<<0, 0>>, NAME_ECHO, NOW_MICROS) >>,
                 << error_response(Request(1), ERR_NO) >> } }

ClientInit ==
    /\ CodecIdle
    /\ ServerIdle
    /\ SendIdle
    /\ resp \in ResponseStreams \cup TrailingStreams
    /\ rx = resp
    /\ cb_fail_at \in 0..MaxFrames
    /\ msg_buf = <<>>
    /\ total_bytes = 0
    /\ result = RecvOk(0)
    /\ stream_end = FALSE
    /\ cb = <<>>
    /\ returned = <<>>

\* the sizes a read of the stream returns
RecvSizes ==
    { n \in 1..Min(READ_BUF_SZ, Len(rx)) :
        n % RecvQuantum = 0 \/ n = Min(READ_BUF_SZ, Len(rx)) }

\* receive's variables take the values of st
Becomes(st) ==
    /\ msg_buf' = st.msg_buf
    /\ total_bytes' = st.total_bytes
    /\ result' = st.result
    /\ stream_end' = st.stream_end
    /\ cb' = st.cb

\* stream.read returns n bytes
ClientRead(n) ==
    /\ ~stream_end
    /\ n \in RecvSizes
    /\ rx' = Drop(rx, n)
    /\ Becomes(receive_read(RecvState(msg_buf, total_bytes, result, stream_end, cb),
                            Take(rx, n)))
    /\ UNCHANGED << resp, cb_fail_at, returned >>
    /\ UNCHANGED codecVars
    /\ UNCHANGED serverVars
    /\ UNCHANGED sendVars

\* stream.read returns Ok(0): the server has closed the connection
ClientReadEof ==
    /\ ~stream_end
    /\ rx = <<>>
    /\ Becomes(receive_eof(RecvState(msg_buf, total_bytes, result, stream_end, cb)))
    /\ UNCHANGED << resp, rx, cb_fail_at, returned >>
    /\ UNCHANGED codecVars
    /\ UNCHANGED serverVars
    /\ UNCHANGED sendVars

ClientNext ==
    \/ \E n \in 1..READ_BUF_SZ : ClientRead(n)
    \/ ClientReadEof

SpecClient == ClientInit /\ [][ClientNext]_vars

(***************************************************************************)
(* SpecPipeline: a client has sent two requests on one connection and      *)
(* then calls receive twice on the stream.                                 *)
(***************************************************************************)
\* the bytes a server writes in answer to two requests (respond, whatever
\* its handler returns for each)
PipelinedStreams ==
    { encode(respond(<< Request(1), Request(2) >>, cs).responses, <<>>) :
        cs \in [1..2 -> Outcomes] }

PipelineInit ==
    /\ CodecIdle
    /\ ServerIdle
    /\ SendIdle
    /\ resp \in PipelinedStreams
    /\ rx = resp
    /\ cb_fail_at = 0
    /\ msg_buf = <<>>
    /\ total_bytes = 0
    /\ result = RecvOk(0)
    /\ stream_end = FALSE
    /\ cb = <<>>
    /\ returned = <<>>

\* receive has returned and is called a second time on the stream: the
\* call starts with its own msg_buf, total_bytes and result
ReceiveAgain ==
    /\ stream_end
    /\ returned = <<>>
    /\ returned' = << [result |-> result, cb |-> cb] >>
    /\ msg_buf' = <<>>
    /\ total_bytes' = 0
    /\ result' = RecvOk(0)
    /\ stream_end' = FALSE
    /\ cb' = <<>>
    /\ UNCHANGED << resp, rx, cb_fail_at >>
    /\ UNCHANGED codecVars
    /\ UNCHANGED serverVars
    /\ UNCHANGED sendVars

PipelineNext ==
    \/ \E n \in 1..READ_BUF_SZ : ClientRead(n)
    \/ ClientReadEof
    \/ ReceiveAgain

SpecPipeline == PipelineInit /\ [][PipelineNext]_vars

(***************************************************************************)
(* The client's requests: FastMessageId (protocol.rs) and client.rs send.  *)
(* A usize is a sequence of 16-bit limbs, the most significant first: two  *)
(* on a 32-bit target, four on a 64-bit one.                               *)
(***************************************************************************)
LIMB == 65536

\* usize::max_value() of a usize of w limbs
usize_max(w) == [i \in 1..w |-> LIMB - 1]

RECURSIVE usize_inc(_)
\* v + 1 (v is never usize::max_value(): next keeps it below that)
usize_inc(v) ==
    IF v = <<>> THEN <<>>
    ELSE IF v[Len(v)] < LIMB - 1 THEN [v EXCEPT ![Len(v)] = @ + 1]
    ELSE usize_inc(Take(v, Len(v) - 1)) \o << 0 >>

\* x % (usize::max_value() - 1), for x up to usize::max_value() - 1
usize_rem(x) ==
    IF x = [usize_max(Len(x)) EXCEPT ![Len(x)] = LIMB - 2]
    THEN [i \in 1..Len(x) |-> 0]
    ELSE x

\* FastMessageId::new()
FastMessageId_new(w) == [i \in 1..w |-> 0]

\* FastMessageId::next: the value returned and the value kept
FastMessageId_next(v) == [current |-> v, value |-> usize_rem(usize_inc(v))]

\* x as u32: the low 32 bits
usize_as_u32(x) == << x[Len(x) - 1], x[Len(x)] >>

\* stream.write(write_buf.as_ref()) with the result w of the transport:
\* what send returns and the bytes the stream took
send_write(frame, w) ==
    IF w.tag = "Ok" THEN [ret |-> w, written |-> Take(frame, w.n)]
    ELSE [ret |-> w, written |-> <<>>]

\* the frame send encodes: FastMessage::data(id as u32,
\* FastMessageData::new(method, args))
send_frame(method, args, id) ==
    encode_msg(FastMessage_data(usize_as_u32(id),
                                FastMessageData_new(method, args, NOW_MICROS)),
               <<>>)

\* the results of one write of len bytes: some of the bytes are accepted,
\* or the transport fails
WriteResults(len) ==
    { [tag |-> "Ok", n |-> n] : n \in { k \in 1..len : k = len \/ k % WriteQuantum = 0 } }
    \cup { [tag |-> "Err", kind |-> "BrokenPipe", text |-> <<>>] }

\* the requests a client makes: method and args
Calls == { << NAME_ECHO, JArr(<< JStr(<<120>>) >>) >>, << NAME_A, JArr(<<>>) >> }

\* the values a FastMessageId holds when a request is sent: 0, and those
\* next has reached after 2^31 - 3 and after 2^31 - 2 calls
StartIds ==
    { FastMessageId_new(2), << 32767, 65533 >>, << 32767, 65534 >>,
      FastMessageId_new(4), << 0, 0, 32767, 65533 >>, << 0, 0, 32767, 65534 >> }

SendInit ==
    /\ CodecIdle
    /\ ServerIdle
    /\ ClientIdle
    /\ msg_id \in StartIds
    /\ sent = <<>>
    /\ out = <<>>

\* the end of send, with the id next returned and the result of the write
SendDone(id, frame, r) ==
    /\ sent' = Append(sent, [id |-> id.current, frame |-> frame, ret |-> r.ret])
    /\ out' = out \o r.written
    /\ msg_id' = id.value

\* client::send(method, args, &mut msg_id, &mut stream)
Send(method, args) ==
    /\ Len(sent) < MaxSends
    /\ \E id \in { FastMessageId_next(msg_id) } :
          \E frame \in { send_frame(method, args, id.current) } :
             \E w \in WriteResults(Len(frame)) :
                SendDone(id, frame, send_write(frame, w))
    /\ UNCHANGED codecVars
    /\ UNCHANGED serverVars
    /\ UNCHANGED clientVars

SendNext == \E c \in Calls : Send(c[1], c[2])

SpecSend == SendInit /\ [][SendNext]_vars

(***************************************************************************)
(* One connection carrying echo requests one after another, as run_client  *)
(* and run_server of tests/client_server_test.rs drive it: send, the       *)
(* server's process with the test's msg_handler, then receive.             *)
(***************************************************************************)
\* the number of requests run_client makes
MaxRpcs == 2

\* "a".repeat(data_size) of the k-th request: longer than receive's read_buf
LongString(k) == [i \in 1..((k + 1) * READ_BUF_SZ) |-> 97]

\* args of the k-th request: ["aaa..."]
EchoArgs(k) == JArr(<< JStr(LongString(k)) >>)

\* the text of msg_handler's error
UNSUPPORTED == <<85, 110, 115, 117, 112, 112, 111, 114, 116, 101, 100>>

\* msg_handler(msg, log): echo_handler answers "echo" with one DATA frame
\* of the request's data, any other method is an error
msg_handler(msg) ==
    IF msg.data.m.name = NAME_ECHO
    THEN [tag |-> "Ok", n |-> 1]
    ELSE [tag |-> "Err", err |-> UNSUPPORTED]

ConnInit ==
    /\ CodecIdle
    /\ ClientIdle
    /\ SendIdle
    /\ reqs = <<>>
    /\ tail = "whole"
    /\ net = <<>>
    /\ rd = <<>>
    /\ calls = <<>>
    /\ wire = <<>>
    /\ srv = "running"

\* the client may go on to its next request: the loop of run_client stops
\* at a send that fails (the ? operator) and at a receive that fails (the
\* assert)
ConnReady ==
    /\ stream_end
    /\ result.tag = "Ok"
    /\ sent # <<>> => sent[Len(sent)].ret.tag = "Ok"

\* one turn of run_client's loop up to the call of receive:
\* FastMessageId::new(), client::send, and receive's first lines
ConnSend(k) ==
    /\ ConnReady
    /\ k = Len(sent) + 1
    /\ \E id \in { FastMessageId_next(FastMessageId_new(Len(msg_id))) } :
          \E frame \in { send_frame(NAME_ECHO, EchoArgs(k), id.current) } :
             \E w \in WriteResults(Len(frame)) :
                \E r \in { send_write(frame, w) } :
                   /\ SendDone(id, frame, r)
                   /\ net' = net \o r.written
                   /\ stream_end' = (r.ret.tag # "Ok")
    /\ msg_buf' = <<>>
    /\ total_bytes' = 0
    /\ result' = RecvOk(0)
    /\ cb' = <<>>
    /\ UNCHANGED << resp, rx, cb_fail_at, returned >>
    /\ UNCHANGED << reqs, tail, rd, calls, wire, srv >>
    /\ UNCHANGED codecVars

\* one turn of the loop of process with msg_handler as the handler: what
\* transport.send writes reaches the client's stream
ConnProcess(r) ==
    /\ rd' = r.buf
    /\ \E response \in { respond(r.msgs, [i \in 1..Len(r.msgs) |-> msg_handler(r.msgs[i])]) } :
          /\ calls' = calls \o response.called
          /\ \E bytes \in { encode(response.responses, <<>>) } :
                /\ wire' = wire \o bytes
                /\ rx' = rx \o bytes
    /\ srv' = CASE r.tag = "Err" -> "failed"
                [] r.tag = "Panic" -> "panicked"
                [] OTHER -> "running"

\* the server's socket yields n bytes
ConnServe(n) ==
    /\ srv = "running"
    /\ n \in ReadSizes
    /\ net' = Drop(net, n)
    /\ ConnProcess(decode(rd \o Take(net, n)))
    /\ UNCHANGED << reqs, tail >>
    /\ UNCHANGED << resp, cb_fail_at, msg_buf, total_bytes, result, stream_end, cb, returned >>
    /\ UNCHANGED codecVars
    /\ UNCHANGED sendVars

ConnNext ==
    \/ \E k \in 1..MaxRpcs : ConnSend(k)
    \/ \E n \in 1..Len(net) : ConnServe(n)
    \/ \E n \in 1..READ_BUF_SZ : ClientRead(n)

SpecConn == ConnInit /\ [][ConnNext]_vars

\* the server's task as the runtime sees it: it is polled whenever its
\* socket has bytes, and a turn takes some of them
ConnServeTurn ==
    /\ srv = "running"
    /\ net # <<>>
    /\ net' \in { Drop(net, n) : n \in 1..Len(net) }

\* the client's blocking read as the operating system sees it: it returns
\* whenever the stream has bytes, with some of them
ClientReadTurn ==
    /\ ~stream_end
    /\ rx # <<>>
    /\ rx' \in { Drop(rx, n) : n \in 1..Len(rx) }

\* SpecConn with a server task that is polled and a read that returns
\* while there are bytes to take
SpecConnFair == SpecConn /\ WF_net(ConnServeTurn) /\ WF_rx(ClientReadTurn)

(***************************************************************************)
(* Properties of the codec.                                                *)
(***************************************************************************)
\* the bytes of the payload of a message, as encode_msg serializes them
PayloadLen(msg) == Len(to_string(msg.data))

ParsedOk == parsed # None /\ parsed[1].tag = "Ok"

\* C5: parsing the encoding of a message succeeds and gives a message equal
\* to it in type, status, id, m.name and d
RoundtripHolds ==
    parsed # None =>
        /\ parsed[1].tag = "Ok"
        /\ parsed[1].msg.msg_type = item[1].msg_type
        /\ parsed[1].msg.status = item[1].status
        /\ parsed[1].msg.id = item[1].id
        /\ parsed[1].msg.data.m.name = item[1].data.m.name
        /\ parsed[1].msg.data.d = item[1].data.d

\* an ERROR message with the greatest id and an object payload was encoded
\* and parsed back
RoundtripWitness ==
    /\ ParsedOk
    /\ item[1].status = "Error"
    /\ item[1].id = <<65535, 65535>>
    /\ item[1].data.d.t = "obj"
    /\ item[1].data.d.v # <<>>

\* C6 as stated: the parsed message of every status reports msg_size
\* 15 + the length of the encoded payload
MsgSizeEveryStatus ==
    ParsedOk => parsed[1].msg.msg_size = Some(FP_HEADER_SZ + PayloadLen(item[1]))

\* C6: the parsed message reports msg_size 15 + the length of the encoded
\* payload when its status is DATA or ERROR, and no msg_size when it is END
MsgSizeByStatus ==
    ParsedOk =>
        parsed[1].msg.msg_size =
            IF item[1].status = "End" THEN None
            ELSE Some(FP_HEADER_SZ + PayloadLen(item[1]))

\* an END message with a payload was parsed back and reports no size
MsgSizeWitness ==
    /\ ParsedOk
    /\ item[1].status = "End"
    /\ PayloadLen(item[1]) > 0
    /\ parsed[1].msg.msg_size = None

\* the whole encoding has been handed to the decoder
AllFed == phase \in { "parsed", "failed" } /\ write_buf = <<>>

\* C7: k encodings of a message occupy the same number of bytes each, and
\* one decode call on them yields k messages equal to it and empties the
\* buffer
BundlingHolds ==
    /\ phase = "encoded" =>
          /\ Len(write_buf) = Len(item) * (FP_HEADER_SZ + PayloadLen(item[1]))
          /\ \A i \in 1..Len(item) :
                Slice(write_buf, (i - 1) * (FP_HEADER_SZ + PayloadLen(item[1])),
                      i * (FP_HEADER_SZ + PayloadLen(item[1])))
                    = Take(write_buf, FP_HEADER_SZ + PayloadLen(item[1]))
    /\ AllFed =>
          /\ phase = "parsed"
          /\ Len(msgs) = Len(item)
          /\ \A i \in 1..Len(msgs) : SameMessage(msgs[i], item[i])
          /\ buf = <<>>

\* a bundle of more than one DATA message was decoded by one call
BundlingWitness ==
    /\ AllFed
    /\ Len(item) > 1
    /\ item[1].status = "Data"
    /\ Len(msgs) = Len(item)

\* the bytes of the encoding handed to the decoder so far
FedSoFar ==
    LET whole == encode(item, <<>>)
    IN  Take(whole, Len(whole) - Len(write_buf))

\* C8: whatever chunks the bytes handed to the decoder so far arrived in,
\* the decode calls together yielded the messages, and left the buffer,
\* that one decode call on those bytes gives; with all bytes handed over
\* the buffer is empty
IncrementalHolds ==
    (phase \in { "parsed", "failed" } /\ ~damaged) =>
        /\ phase = "parsed"
        /\ \E r \in { decode(FedSoFar) } :
              /\ r.tag = "Ok"
              /\ msgs = r.msgs
              /\ buf = r.buf
        /\ write_buf = <<>> => buf = <<>> /\ Len(msgs) = Len(item)

\* a DATA message has been yielded and the decoder holds part of the header
\* of the terminator that follows it
IncrementalWitness ==
    /\ phase = "parsed"
    /\ ~damaged
    /\ Len(item) = 2
    /\ item[2].status # "Data"
    /\ Len(msgs) = 1
    /\ msgs[1].status = "Data"
    /\ buf # <<>>
    /\ Len(buf) < FP_HEADER_SZ

\* the chunk a step hands to the decoder (empty when it hands none)
Chunk == Take(write_buf, Len(write_buf) - Len(write_buf'))

\* C10 as stated: when the buffer holds an incomplete frame, the decoder
\* keeps it, and with any more bytes appended parse succeeds or reports
\* NotEnoughBytes again
NeedMoreNeverError ==
    [][ (phase = "parsed" /\ Len(write_buf') < Len(write_buf)) =>
            /\ parse(buf).tag = "NotEnoughBytes"
            /\ parse(buf \o Chunk).tag \in { "Ok", "NotEnoughBytes" } ]_vars

\* C10: when parse reports NotEnoughBytes the decoder keeps the buffer as
\* it is and yields nothing; with more bytes appended parse succeeds or
\* reports NotEnoughBytes again when the bytes continue the encoding of
\* well-formed messages, and otherwise may also report a malformed frame
NeedMoreKeepsBuffer ==
    [][ (phase = "parsed" /\ Len(write_buf') < Len(write_buf)) =>
            /\ parse(buf).tag = "NotEnoughBytes"
            /\ \E r \in { parse(buf \o Chunk) } :
                  /\ r.tag = "NotEnoughBytes" =>
                        /\ buf' = buf \o Chunk
                        /\ msgs' = msgs
                        /\ phase' = "parsed"
                  /\ ~damaged => r.tag \in { "Ok", "NotEnoughBytes" }
                  /\ r.tag = "IOError" => phase' = "failed" ]_vars

\* the decoder holds a header and part of a payload, no message yielded yet
NeedMoreWitness ==
    /\ phase = "parsed"
    /\ ~damaged
    /\ msgs = <<>>
    /\ Len(buf) > FP_HEADER_SZ
    /\ write_buf # <<>>

(***************************************************************************)
(* Properties of the server.                                               *)
(***************************************************************************)
RECURSIVE SplitFrames(_)
\* the frames of a byte stream, cut where each header's data length says
SplitFrames(bytes) ==
    IF Len(bytes) < FP_HEADER_SZ THEN <<>>
    ELSE LET n == FP_HEADER_SZ
                    + as_usize(read_u32(Slice(bytes, FP_OFF_DATALEN, FP_OFF_DATALEN + 4)))
         IN  << Take(bytes, n) >> \o SplitFrames(Drop(bytes, n))

\* the status and the id in the header of each frame the server has written
WireHeaders ==
    LET frames == SplitFrames(wire)
    IN  [k \in 1..Len(frames) |->
            [status |-> Byte(frames[k], FP_OFF_STATUS),
             id |-> read_u32(Slice(frames[k], FP_OFF_MSGID, FP_OFF_MSGID + 4))]]

\* the frames the server has written, as a peer decodes them
WireMsgs == decode(wire).msgs

\* the positions on the wire of the frames with an id
PositionsOf(hs, id) == { k \in 1..Len(hs) : hs[k].id = id }

\* the status bytes of END (2) and ERROR (3)
TerminatorBytes == { 2, 3 }

\* the client's stream was well-formed and the server has read all of it
AllReceived == srv # "none" /\ tail = "whole" /\ net = <<>>

\* C1: each request received is passed to the handler, and for each request
\* passed to the handler the frames written hold exactly one END or ERROR
\* frame with its id, which is the last frame written with that id
TerminatorExclusive ==
    /\ \A i \in 1..Len(calls) :
          \E hs \in { WireHeaders } :
             \E terms \in { { k \in PositionsOf(hs, calls[i].req.id) :
                                hs[k].status \in TerminatorBytes } } :
                /\ Cardinality(terms) = 1
                /\ \A k \in PositionsOf(hs, calls[i].req.id) : \A t \in terms : k <= t
    /\ AllReceived =>
          /\ Len(calls) = Len(reqs)
          /\ \A i \in 1..Len(calls) : SameMessage(calls[i].req, reqs[i])

\* two requests have been answered, the first with a DATA frame and its
\* terminator
TerminatorWitness ==
    /\ AllReceived
    /\ Len(calls) = 2
    /\ calls[1].res.tag = "Ok"
    /\ calls[1].res.frames # <<>>
    /\ Len(SplitFrames(wire)) >= 3

\* the frames on the wire that carry the id of request R
FramesFor(R) == SelectSeq(WireMsgs, LAMBDA m : m.id = R.id)

\* C2: for a request whose handler returned Err(E) the server has written
\* one frame: an ERROR frame with the request's id and method name and
\* d = {"name": "FastError", "message": E}
HandlerErrorFrame ==
    \A i \in 1..Len(calls) :
        calls[i].res.tag = "Err" =>
            \E fs \in { FramesFor(calls[i].req) } :
                /\ Len(fs) = 1
                /\ fs[1].status = "Error"
                /\ fs[1].id = calls[i].req.id
                /\ fs[1].data.m.name = calls[i].req.data.m.name
                /\ fs[1].data.d =
                      JObj(<< [k |-> KEY_MESSAGE, val |-> JStr(calls[i].res.err)],
                              [k |-> KEY_NAME, val |-> JStr(FAST_ERROR)] >>)

\* the handler has returned an error for the second request of a connection
HandlerErrorWitness ==
    /\ Len(calls) = 2
    /\ calls[1].res.tag = "Ok"
    /\ calls[2].res.tag = "Err"
    /\ Len(WireMsgs) >= 2

\* the positions on the wire of the frames decoded with an id
MsgPositionsOf(ms, id) == { k \in 1..Len(ms) : ms[k].id = id }

HandlerErrorKeepsConnection ==
    /\ \A i \in 1..Len(calls) :
          calls[i].res.tag = "Err" =>
              /\ tail = "whole" => srv \in { "running", "closed" }
              /\ \A j \in (i + 1)..Len(calls) :
                    \E hs \in { WireHeaders } :
                        \E k \in PositionsOf(hs, calls[j].req.id) :
                            hs[k].status \in TerminatorBytes
    /\ AllReceived => Len(calls) = Len(reqs)

\* the handler failed for the first request, the request after it has been
\* answered and the server is still serving the connection
HandlerErrorKeepsWitness ==
    /\ AllReceived
    /\ Len(calls) >= 2
    /\ calls[1].res.tag = "Err"
    /\ Len(SplitFrames(wire)) >= 2
    /\ srv = "running"

(***************************************************************************)
(* Properties of the client.                                               *)
(***************************************************************************)
RECURSIVE ReceiveAll(_, _)

\* receive when every read fills read_buf as far as the stream allows: the
\* fewest reads
ReceiveAll(st, bytes) ==
    IF st.stream_end THEN st
    ELSE IF bytes = <<>> THEN receive_eof(st)
    ELSE ReceiveAll(receive_read(st, Take(bytes, Min(READ_BUF_SZ, Len(bytes)))),
                    Drop(bytes, Min(READ_BUF_SZ, Len(bytes))))

FewestReads == ReceiveAll(RecvState(<<>>, 0, RecvOk(0), FALSE, <<>>), resp)

\* success, or the error receive returns
Outcome(res) == IF res.tag = "Ok" THEN [tag |-> "Ok"] ELSE res

IsPrefix(a, b) == Len(a) <= Len(b) /\ a = Take(b, Len(a))

\* the place among the frames ms of the first END or ERROR frame, or 0
FirstTerminator(ms) ==
    IF \E i \in 1..Len(ms) : ms[i].status # "Data"
    THEN CHOOSE i \in 1..Len(ms) :
            ms[i].status # "Data" /\ \A j \in 1..(i - 1) : ms[j].status = "Data"
    ELSE 0

\* the DATA frames of the response up to its terminator, in wire order
DataFrames ==
    LET all == decode(resp).msgs
        t == FirstTerminator(all)
    IN  IF t = 0 THEN all ELSE Take(all, t - 1)

\* the frames the callback is passed: the DATA frames up to the one it fails at
Delivered ==
    IF cb_fail_at \in 1..Len(DataFrames) THEN Take(DataFrames, cb_fail_at) ELSE DataFrames

\* C9: however the response stream is split across reads, the callback is
\* invoked with the stream's DATA frames, each once and in wire order, and
\* receive returns success or the same error as with the fewest reads.
PartialReadsSame ==
    /\ IsPrefix(cb, Delivered)
    /\ IsPrefix(cb, FewestReads.cb)
    /\ (stream_end /\ resp # <<>>) =>
          /\ cb = Delivered
          /\ cb = FewestReads.cb
          /\ Outcome(result) = Outcome(FewestReads.result)

\* C9 witness: receive has returned successfully from a stream of DATA
\* frames and END after a read that ended inside the stream at a place no
\* full read ends at, and every DATA frame went to the callback.
PartialReadsWitness ==
    /\ stream_end
    /\ result.tag = "Ok"
    /\ result.n % READ_BUF_SZ # 0
    /\ result.n < Len(resp)
    /\ Len(resp) > READ_BUF_SZ
    /\ Len(cb) = MaxFrames
    /\ cb = FewestReads.cb

(***************************************************************************)
(* Properties of parse on altered frames.                                  *)
(***************************************************************************)
CRC_MISMATCH == IOError("Calculated CRC does not match the provided CRC")

\* C11: a well-formed frame with one bit of its payload flipped never
\* parses: parse fails with the checksum-mismatch error, it neither
\* succeeds nor asks for more bytes.
CrcRejection == phase = "flipped" => parsed = Some(CRC_MISMATCH)

\* C11 witness: a frame was parsed with a flipped bit that left its payload
\* a JSON text of the payload schema, and the checksum refused it.
CrcRejectionWitness ==
    /\ phase = "flipped"
    /\ parsed = Some(CRC_MISMATCH)
    /\ parse_data(Drop(write_buf, FP_OFF_DATA)).tag = "Ok"

\* C12: every frame the encoder emits has the version byte 1 at offset 0.
VersionByteOne ==
    phase = "encoded" =>
        \A k \in 1..Len(SplitFrames(write_buf)) : Byte(SplitFrames(write_buf)[k], 0) = 1

\* C13: a frame whose version byte is not 1, or whose type byte is not
\* JSON (1), is never returned by parse as a decoded message: parse fails
\* with an error.
UnsupportedFrameRefused ==
    (\/ phase = "version" /\ Byte(write_buf, 0) # 1
     \/ phase = "type" /\ Byte(write_buf, FP_OFF_TYPE) # 1)
        => parsed # None /\ parsed[1].tag = "IOError"

\* C14: a frame with a correct header and CRC whose payload's m has a name
\* and no uts parses to the message it carries.
UtsOptional ==
    phase = "without_uts" =>
        /\ parsed # None
        /\ parsed[1].tag = "Ok"
        /\ parsed[1].msg.data.m.name = item[1].data.m.name
        /\ parsed[1].msg.data.d = item[1].data.d

(***************************************************************************)
(* Properties of send.                                                     *)
(***************************************************************************)
\* a usize below 2^31 - 1
InU31(x) ==
    /\ \A i \in 1..(Len(x) - 2) : x[i] = 0
    /\ x[Len(x) - 1] < 32768
    /\ ~(x[Len(x) - 1] = 32767 /\ x[Len(x)] = LIMB - 1)

\* the id in the header of a frame
WireId(frame) == read_u32(Slice(frame, FP_OFF_MSGID, FP_OFF_MSGID + 4))

\* C15: every id next returns, and every id send writes on the wire, lies
\* in [0, 2^31 - 2], next advancing modulo 2^31 - 1.
IdsIn31Bits ==
    /\ InU31(msg_id)
    /\ \A k \in 1..Len(sent) : InU31(sent[k].id) /\ InU31(WireId(sent[k].frame))

\* C16: whenever send returns Ok(n), the stream has taken every byte of the
\* request's frame and n is the frame's length, 15 + the payload's length.
SendWritesAll ==
    /\ \A k \in 1..Len(sent) :
          sent[k].ret.tag = "Ok" => sent[k].ret.n = Len(sent[k].frame)
    /\ out = Concat([k \in 1..Len(sent) |->
                        IF sent[k].ret.tag = "Ok" THEN sent[k].frame ELSE <<>>])

\* the END or ERROR frame of the response, None when the stream has none
Terminator ==
    LET all == decode(resp).msgs
        t == FirstTerminator(all)
    IN  IF t = 0 THEN None ELSE Some(all[t])

\* the callback returns its error at one of the DATA frames
CallbackFails == cb_fail_at \in 1..Len(DataFrames)

\* receive has returned after it parsed the response's terminator of
\* status st
ReturnedAt(st) ==
    /\ stream_end
    /\ ~CallbackFails
    /\ Terminator # None
    /\ Terminator[1].status = st

\* C17: a response of n DATA frames followed by END gives n + 1 callback
\* invocations, the last with the END frame, before receive returns
\* successfully.
EndDelivered ==
    ReturnedAt("End") =>
        /\ result.tag = "Ok"
        /\ Len(cb) = Len(DataFrames) + 1
        /\ SameMessage(cb[Len(cb)], Terminator[1])

UNSPECIFIED_TEXT == server_error_text(UNSPECIFIED_NAME, UNSPECIFIED_MESSAGE)

IsStringField(d, k) ==
    d.t = "obj" /\ \E i \in 1..Len(d.v) : d.v[i].k = k /\ d.v[i].val.t = "str"

StringField(d, k) == d.v[CHOOSE i \in 1..Len(d.v) : d.v[i].k = k].val.v

\* "{name}: {message}" of an object with these string fields, else the
\* text of the unspecified error
ObjectErrorText(d) ==
    IF IsStringField(d, KEY_NAME) /\ IsStringField(d, KEY_MESSAGE)
    THEN StringField(d, KEY_NAME) \o << 58, 32 >> \o StringField(d, KEY_MESSAGE)
    ELSE UNSPECIFIED_TEXT

IsStringPair(d) == d.t = "arr" /\ Len(d.v) = 2 /\ d.v[1].t = "str" /\ d.v[2].t = "str"

Unterminated == resp # <<>> /\ Terminator = None

\* C19: when the stream ends before an END or ERROR frame was parsed,
\* receive returns the UnexpectedEof error, whatever DATA frames were
\* delivered and whatever part of a frame is buffered.
UnexpectedEofReturned ==
    (stream_end /\ Unterminated /\ ~CallbackFails) =>
        /\ result = RecvErr("UnexpectedEof", <<>>)
        /\ rx = <<>>
        /\ cb = DataFrames

\* C19 witness: receive has returned UnexpectedEof with every DATA frame
\* delivered and a part of a frame in its buffer.
UnexpectedEofWitness ==
    /\ stream_end
    /\ Unterminated
    /\ result = RecvErr("UnexpectedEof", <<>>)
    /\ Len(cb) = MaxFrames
    /\ msg_buf # <<>>

\* C20: once the callback has returned its error for a DATA frame, receive
\* has returned that error: the callback is invoked for no later frame and
\* nothing more is read.
CallbackErrorPropagates ==
    (cb_fail_at # 0 /\ Len(cb) >= cb_fail_at) =>
        /\ Len(cb) = cb_fail_at
        /\ stream_end
        /\ result = RecvErr("Other", CALLBACK_ERROR)

\* C20 witness: the callback failed at the first DATA frame while the
\* second was whole in the buffer and bytes of the stream were unread.
CallbackErrorWitness ==
    /\ cb_fail_at = 1
    /\ Len(cb) = 1
    /\ stream_end
    /\ result = RecvErr("Other", CALLBACK_ERROR)
    /\ rx # <<>>
    /\ parse(Drop(msg_buf, cb[1].msg_size[1])).tag = "Ok"

(***************************************************************************)
(* The count receive returns.                                              *)
(***************************************************************************)
\* C21: whenever receive has returned Ok(n), n is the number of bytes the
\* call has read from the stream
ReceiveCountsBytesRead ==
    (stream_end /\ result.tag = "Ok") => result.n = total_bytes

(***************************************************************************)
(* Echo requests one after another on one connection.                      *)
(***************************************************************************)
\* the frame of the callback's invocations that carries the string sent
\* with the latest request
EchoObserved ==
    \E i \in 1..Len(cb) : cb[i].data.d = EchoArgs(Len(sent))

\* nothing is on its way in either direction: the server has read all the
\* client wrote and the client all the server wrote
ConnQuiet == net = <<>> /\ rx = <<>>

\* C22: every request sent is answered: once nothing more is on its way,
\* the receive that followed the send has returned Ok and its callback has
\* seen a frame whose d is the one-element array of the string sent
EchoCompletes ==
    (sent # <<>> /\ sent[Len(sent)].ret.tag = "Ok" /\ ConnQuiet) =>
        /\ stream_end
        /\ result.tag = "Ok"
        /\ EchoObserved

(***************************************************************************)
(* A frame whose crc field is zero.                                        *)
(***************************************************************************)
\* the frame parsed had its crc field set to zero over a payload whose
\* CRC-16/ARC is not zero
ZeroCrcFrame ==
    /\ phase = "zero_crc"
    /\ Crc16Arc(Drop(write_buf, FP_OFF_DATA)) # 0

HandlerOnlyForRequests ==
    /\ \A i \in 1..Len(calls) : calls[i].req.status = "Data"
    /\ (AllReceived /\ \E i \in 1..Len(reqs) : reqs[i].status # "Data") =>
          srv = "failed"

(***************************************************************************)
(* The order of the handler's invocations and of the frames written.       *)
(***************************************************************************)
\* the bytes of the client's stream the server has read
BytesRead == Take(StreamOf(reqs, tail), Len(StreamOf(reqs, tail)) - Len(net))

RECURSIVE WholeFrames(_)
\* the number of whole frames at the head of a byte stream
WholeFrames(bytes) ==
    IF Len(bytes) < FP_HEADER_SZ THEN 0
    ELSE LET n == FP_HEADER_SZ
                    + as_usize(read_u32(Slice(bytes, FP_OFF_DATALEN, FP_OFF_DATALEN + 4)))
         IN  IF Len(bytes) < n THEN 0 ELSE 1 + WholeFrames(Drop(bytes, n))

\* the number of frames the server has read whole
FramesRead == WholeFrames(BytesRead)

\* C25: the handler is invoked once for each request decoded, in the order
\* of decoding, and on the wire every frame written for a request precedes
\* every frame written for the requests decoded after it
WireOrderFollowsRequests ==
    /\ Len(calls) <= Len(reqs)
    /\ \A i \in 1..Len(calls) : SameMessage(calls[i].req, reqs[i])
    /\ srv \in { "running", "closed" } => Len(calls) = FramesRead
    /\ \E hs \in { WireHeaders } :
          \A i \in 1..Len(calls) :
              /\ PositionsOf(hs, calls[i].req.id) # {}
              /\ \A j \in (i + 1)..Len(calls) :
                    \A a \in PositionsOf(hs, calls[i].req.id) :
                        \A b \in PositionsOf(hs, calls[j].req.id) : a < b

\* C25 witness: two requests were decoded and each was answered with a
\* DATA frame and a terminator
WireOrderWitness ==
    /\ Len(calls) = 2
    /\ calls[1].req.id # calls[2].req.id
    /\ Cardinality(PositionsOf(WireHeaders, calls[1].req.id)) >= 2
    /\ Cardinality(PositionsOf(WireHeaders, calls[2].req.id)) >= 2

(***************************************************************************)
(* What FastRpc::decode removes from the buffer.                           *)
(***************************************************************************)
\* C26: for every valid JSON text of the payload, decode removes the
\* frame's on-wire size, 15 + data_length, for each message it yields: of
\* two whole frames it yields both messages and leaves the buffer empty
AdvancesByWireSize ==
    phase = "spaced" =>
        /\ parsed = Some([tag |-> "Ok"])
        /\ Len(msgs) = 2
        /\ \A k \in 1..Len(msgs) : SameMessage(msgs[k], item[1])
        /\ buf = <<>>

(***************************************************************************)
(* Every request is answered.                                              *)
(***************************************************************************)
\* the terminator of the i-th frame of the client is on the wire
Answered(i) ==
    \E k \in PositionsOf(WireHeaders, reqs[i].id) :
        WireHeaders[k].status \in TerminatorBytes

\* every frame the client's stream holds whole has its terminator
AllAnswered == \A i \in 1..WholeFrames(StreamOf(reqs, tail)) : Answered(i)

\* C27: unless a decode fails, every request frame the server has received
\* whole has its terminator on the wire, and every request frame the client
\* sends whole is eventually received and answered, also when the stream
\* ends right after it or in the middle of the frame after it
EveryRequestAnswered ==
    /\ [](srv \in { "running", "closed" } => \A i \in 1..FramesRead : Answered(i))
    /\ (srv = "running" /\ tail \in { "whole", "cut" }) ~> AllAnswered

\* C27 witness: the client's stream ended in the middle of its last frame,
\* the server has seen the end of the stream, and the request ahead of that
\* frame has its terminator on the wire
EveryRequestWitness ==
    /\ tail = "cut"
    /\ Len(reqs) >= 2
    /\ net = <<>>
    /\ srv = "failed"
    /\ FramesRead = Len(reqs) - 1
    /\ AllAnswered

(***************************************************************************)
(* A decode error ends the server's task.                                  *)
(***************************************************************************)
\* the place among the client's frames of the one with a changed byte
DamagedFrame == IF tail = "damaged" THEN Len(reqs) ELSE 1

\* the server has read the whole of a frame that fails its checksum
DamagedFrameRead ==
    /\ tail \in { "damaged", "damaged_first" }
    /\ FramesRead >= DamagedFrame

\* C28: once decoding fails on a frame, process has stopped with an error;
\* the handler is invoked neither for that frame nor for a frame after it,
\* nothing is written for them, and a task that has stopped invokes no
\* handler and writes nothing
DecodeErrorsFatal ==
    /\ [](DamagedFrameRead =>
            /\ srv = "failed"
            /\ Len(calls) < DamagedFrame
            /\ \A i \in DamagedFrame..Len(reqs) :
                  PositionsOf(WireHeaders, reqs[i].id) = {})
    /\ [][srv = "failed" => (calls' = calls /\ wire' = wire /\ srv' = srv)]_vars

\* C28 witness: decoding failed on the first frame while bytes of a
\* well-formed request were still unread; no handler was invoked and
\* nothing written
DecodeErrorsWitness ==
    /\ tail = "damaged_first"
    /\ Len(reqs) = 2
    /\ reqs[2].status = "Data"
    /\ srv = "failed"
    /\ net # <<>>
    /\ calls = <<>>
    /\ wire = <<>>

(***************************************************************************)
(* The first terminator ends receive.                                      *)
(***************************************************************************)
\* the number of bytes of the response up to the end of its first END or
\* ERROR frame
TerminatorEnd ==
    LET frames == SplitFrames(resp)
        all == decode(resp).msgs
    IN  Len(Concat(Take(frames, FirstTerminator(all))))

\* C29 for a response whose frames are all, the t-th of them its first
\* terminator (t = 0: none), which ends at byte number term_end
TerminatorEndsAt(all, t, term_end) ==
    /\ IsPrefix(cb, IF t = 0 THEN all ELSE Take(all, t - 1))
    /\ (t # 0 /\ total_bytes >= term_end) => stream_end
    /\ (stream_end /\ t # 0 /\ cb_fail_at \notin 1..(t - 1)) =>
          /\ cb = Take(all, t - 1)
          /\ total_bytes >= term_end
          /\ all[t].status = "End" => result.tag = "Ok"
          /\ all[t].status = "Error" => result.tag = "Err"

\* C29: the first END or ERROR frame parsed ends receive: the callback is
\* passed only frames ahead of it, receive has returned in the turn that
\* read its last byte (no read follows), with Ok for END and Err for ERROR
FirstTerminatorEnds ==
    \E all \in { decode(resp).msgs } :
        \E t \in { FirstTerminator(all) } :
            TerminatorEndsAt(all, t, Len(Concat(Take(SplitFrames(resp), t))))

\* C29 witness: receive has returned an error at an ERROR frame that the
\* frames of another response follow in the stream, bytes of which were
\* read and bytes of which were not; the callback saw the one DATA frame
\* ahead of the ERROR frame
FirstTerminatorWitness ==
    /\ stream_end
    /\ Terminator # None
    /\ Terminator[1].status = "Error"
    /\ Len(decode(resp).msgs) > Len(DataFrames) + 1
    /\ total_bytes > TerminatorEnd
    /\ rx # <<>>
    /\ result.tag = "Err"
    /\ Len(cb) = 1

(***************************************************************************)
(* The order of parse's decisions.                                         *)
(***************************************************************************)
\* the phases in which parsed holds the result of parse on a frame or on a
\* part of one
ParsePhases ==
    { "flipped", "version", "type", "status", "zero_crc", "without_uts",
      "not_utf8", "prefix" }

\* the bytes parse was called on
ParsedBytes == IF phase = "prefix" THEN buf ELSE write_buf

\* the errors of parse_header
HeaderErrors ==
    { IOError("Failed to parse message type"),
      IOError("Failed to parse message status") }

\* the errors of validate_crc and parse_data
PayloadErrors ==
    { CRC_MISMATCH,
      IOError("Failed to parse data payload as UTF-8"),
      IOError("Failed to parse data payload as JSON") }

\* C30 for the bytes b and the result r of parse on them
DecisionOrder(b, r) ==
    LET len == Len(b)
        known == len >= 15 /\ b[2] = 1 /\ b[3] \in { 1, 2, 3 }
        data_length == ((b[12] * 256 + b[13]) * 256 + b[14]) * 256 + b[15]
        need_more == len < 15 \/ (known /\ len < 15 + data_length)
    IN  /\ r.tag = "NotEnoughBytes" <=> need_more
        /\ need_more => r = NotEnoughBytes(len)
        /\ (len >= 15 /\ ~known) => r \in HeaderErrors
        /\ r \in HeaderErrors => (len >= 15 /\ ~known)
        /\ r \in PayloadErrors => (known /\ len >= 15 + data_length)
        /\ r.tag \in { "Ok", "NotEnoughBytes" } \/ r \in HeaderErrors \cup PayloadErrors

\* C30: parse answers NotEnoughBytes(len(buf)) exactly when fewer than 15
\* bytes are there, or the type and status bytes are known and fewer than
\* 15 + data_length bytes are there; an unknown type or status byte is an
\* error as soon as 15 bytes are there; a CRC, UTF-8 or JSON failure is
\* reported only on a whole payload, as an error other than NotEnoughBytes
ParseDecisionOrder ==
    phase \in ParsePhases => DecisionOrder(ParsedBytes, parsed[1])

\* C30 witness: parse was called on the header and a part of the payload of
\* a frame with an unknown status byte, and answered with the error of the
\* status
ParseDecisionWitness ==
    /\ phase = "prefix"
    /\ Len(buf) > FP_HEADER_SZ
    /\ Len(buf) < Len(write_buf)
    /\ Byte(buf, FP_OFF_STATUS) \notin { 1, 2, 3 }
    /\ parsed = Some(IOError("Failed to parse message status"))

(***************************************************************************)
(* A handler that returns a terminator.                                    *)
(***************************************************************************)
\* the number of END and ERROR frames on the wire with the id of the i-th
\* invocation's request
TerminatorsFor(i) ==
    Cardinality({ k \in PositionsOf(WireHeaders, calls[i].req.id) :
                    WireHeaders[k].status \in TerminatorBytes })

\* C31: a frame of status END or ERROR in the list a handler returns is not
\* written: each request passed to the handler has exactly one END or ERROR
\* frame with its id on the wire
HandlerTerminatorsDropped ==
    \A i \in 1..Len(calls) : TerminatorsFor(i) = 1

(***************************************************************************)
(* Requests ahead of a frame that fails to decode.                         *)
(***************************************************************************)
\* C32: when the server has stopped on a frame that fails to decode, the
\* handler has been invoked for every well-formed request ahead of that frame
\* in the client's stream and the request's terminator has been written,
\* however the bytes were split across reads
RequestsAheadAnswered ==
    (DamagedFrameRead /\ srv = "failed") =>
        /\ Len(calls) >= DamagedFrame - 1
        /\ \A i \in 1..(DamagedFrame - 1) : Answered(i)

(***************************************************************************)
(* Two receive calls on one stream.                                        *)
(***************************************************************************)
\* the frames of the i-th of the two responses on the stream
PipelinedResponse(i) ==
    LET all == decode(resp).msgs
        first == FirstTerminator(all)
    IN  IF i = 1 THEN Take(all, first) ELSE Drop(all, first)

\* a receive call that returned result res after the callback was invoked
\* with called has observed the whole of the response frames: its DATA
\* frames and its terminator
Observed(frames, called, res) ==
    /\ called = Take(frames, Len(frames) - 1)
    /\ frames[Len(frames)].status = "End" => res.tag = "Ok"
    /\ frames[Len(frames)].status = "Error" => res.tag = "Err"

\* C33: when two receive calls on a stream with the responses to two
\* requests have returned, the first has observed the whole of the first
\* response and the second the whole of the second
PipelinedReceives ==
    (returned # <<>> /\ stream_end) =>
        /\ Observed(PipelinedResponse(1), returned[1].cb, returned[1].result)
        /\ Observed(PipelinedResponse(2), cb, result)

(***************************************************************************)
(* What FastRpc::decode asks the buffer to advance by.                     *)
(***************************************************************************)
\* C34: FastRpc::decode never advances the buffer by more bytes than it
\* holds: on a buffer that starts with a frame parse accepts, whatever the
\* JSON text of its payload, decode returns without a panic and yields the
\* frame's message
NeverOverAdvances ==
    phase = "exponent" =>
        /\ parsed # Some([tag |-> "Panic"])
        /\ msgs # <<>>

(***************************************************************************)
(* The unwrap of msg_size in parse_and_handle_messages.                    *)
(***************************************************************************)
\* C36: the unwrap of fm.msg_size never panics: receive never ends in a
\* panic, and every frame that went through the unwrap to the callback has
\* a status other than END and msg_size = Some(15 + data_length)
UnwrapNeverPanics ==
    /\ result.tag # "Panic"
    /\ \A k \in 1..Len(cb) :
          /\ cb[k].status # "End"
          /\ cb[k].msg_size = Some(FP_HEADER_SZ + Len(to_string(cb[k].data)))

\* C36 witness: receive has returned at an END frame after DATA frames went
\* through the unwrap
UnwrapWitness ==
    /\ ReturnedAt("End")
    /\ cb # <<>>
    /\ result.tag = "Ok"

(***************************************************************************)
(* receive returns.                                                        *)
(***************************************************************************)
\* C35: every frame parse_and_handle_messages hands to the callback moved
\* its offset on by the frame's size, at least 15 bytes, and the receive of
\* every RPC against a server whose handler returns comes back: a call of
\* receive that has begun eventually returns
ReceiveReturns ==
    /\ [](\A k \in 1..Len(cb) :
             cb[k].msg_size # None /\ cb[k].msg_size[1] >= FP_HEADER_SZ)
    /\ (~stream_end) ~> stream_end

====
